---------------------------- MODULE Spec2Model ----------------------------
(***************************************************************************)
(* FoxMark: the synchronisation engine between the markdown source editor  *)
(* (SmoothMarkdownEditor) and the two rendered views (UltraSmoothPreview   *)
(* instances "preview" and "wysiwyg") owned by EnhancedMainWindow.         *)
(*                                                                         *)
(* Text is a sequence of tokens.  A token is a string: a markup token of   *)
(* markdown ("#", "**", "-", "1."), a white-space token (SP, NL), an HTML  *)
(* tag ("<p>", "</p>", ...) or a word.  The regular-expression chain of    *)
(* html_to_markdown is translated substitution by substitution over token  *)
(* sequences, in the order of the source.                                  *)
(***************************************************************************)
EXTENDS Integers, Sequences, FiniteSets, TLC

SP == " "
NL == "\n"

(* the backquote character of inline code *)
BQ == "bq"

IsWs(t) == t \in {SP, NL}

Max2(a, b) == IF a >= b THEN a ELSE b

Min2(a, b) == IF a <= b THEN a ELSE b

(* s[i..j], the empty sequence when i > j *)
Slice(s, i, j) == IF i > j THEN << >> ELSE SubSeq(s, i, j)

(* least index k >= from with s[k] \in set, 0 when there is none *)
FirstIn(s, from, set) ==
    LET hits == {k \in from..Len(s) : s[k] \in set}
    IN  IF hits = {} THEN 0 ELSE CHOOSE k \in hits : \A m \in hits : k <= m

(* greatest index k with s[k] \in set, 0 when there is none *)
LastIn(s, set) ==
    LET hits == {k \in 1..Len(s) : s[k] \in set}
    IN  IF hits = {} THEN 0 ELSE CHOOSE k \in hits : \A m \in hits : k >= m

(* str.strip(): leading and trailing white space removed *)
Strip(s) ==
    LET keep == {k \in 1..Len(s) : ~IsWs(s[k])}
    IN  IF keep = {} THEN << >>
        ELSE Slice(s, CHOOSE k \in keep : \A m \in keep : k <= m,
                      CHOOSE k \in keep : \A m \in keep : k >= m)

(***************************************************************************)
(* HTML tags.  A pattern <tag[^>]*> matches the opening tag with any       *)
(* attributes, so one token stands for the opening tag however the         *)
(* renderer decorates it (the toc extension gives headings an id).         *)
(***************************************************************************)
HOpen  == << "<h1>", "<h2>", "<h3>", "<h4>", "<h5>", "<h6>" >>
HClose == << "</h1>", "</h2>", "</h3>", "</h4>", "</h5>", "</h6>" >>

RECURSIVE Hashes(_)
Hashes(n) == IF n = 0 THEN << >> ELSE <<"#">> \o Hashes(n - 1)

NumTok == << "1.", "2.", "3.", "4." >>

(* an opening tag of an ordered list with a start attribute *)
OlStart == "<ol start=3>"

(* anchors with and without an href, and images by their attributes *)
AHref     == "<a href='u'>"
ImgSrcAlt == "<img src='u' alt='t'>"
ImgAltSrc == "<img alt='t' src='u'>"

Tags == {HOpen[i] : i \in 1..6} \cup {HClose[i] : i \in 1..6} \cup
        {"<p>", "</p>", "<strong>", "</strong>", "<em>", "</em>",
         "<code>", "</code>", "<br>", "<ul>", "</ul>", "<ol>", "</ol>",
         "<li>", "</li>", "<hr />", OlStart,
         AHref, "<a name='n'>", "</a>", ImgSrcAlt, ImgAltSrc, "<img src='u'>"}

(***************************************************************************)
(* re.sub(r'<open[^>]*>(.*?)</close>', pre \1 post, s, DOTALL): the        *)
(* leftmost opening tag that has a closing tag after it is matched with    *)
(* the nearest such closing tag; the scan goes on behind the match.        *)
(***************************************************************************)
RECURSIVE SubWrap(_, _, _, _, _)
SubWrap(s, opens, closes, pre, post) ==
    LET i == FirstIn(s, 1, opens)
        j == IF i = 0 THEN 0 ELSE FirstIn(s, i + 1, closes)
    IN  IF j = 0 THEN s
        ELSE Slice(s, 1, i - 1) \o pre \o Slice(s, i + 1, j - 1) \o post
             \o SubWrap(Slice(s, j + 1, Len(s)), opens, closes, pre, post)

(* for i in range(6, 0, -1): text = re.sub(<h{i}>(.*?)</h{i}>, '#'*i + ' \1') *)
RECURSIVE Headers(_, _)
Headers(s, i) ==
    IF i = 0 THEN s
    ELSE Headers(SubWrap(s, {HOpen[i]}, {HClose[i]}, Hashes(i) \o <<SP>>, << >>), i - 1)

(* re.findall(r'<li[^>]*>(.*?)</li>', list_content): the items, in order *)
RECURSIVE ListItems(_)
ListItems(s) ==
    LET i == FirstIn(s, 1, {"<li>"})
        j == IF i = 0 THEN 0 ELSE FirstIn(s, i + 1, {"</li>"})
    IN  IF j = 0 THEN << >>
        ELSE <<Slice(s, i + 1, j - 1)>> \o ListItems(Slice(s, j + 1, Len(s)))

(* '\n'.join(result) for the items from index k on *)
RECURSIVE JoinItems(_, _, _)
JoinItems(items, k, ordered) ==
    IF k > Len(items) THEN << >>
    ELSE (IF ordered THEN <<NumTok[k], SP>> ELSE <<"-", SP>>)
         \o Strip(items[k])
         \o (IF k < Len(items) THEN <<NL>> ELSE << >>)
         \o JoinItems(items, k + 1, ordered)

(* UltraSmoothPreview.convert_list *)
convert_list(list_content, ordered) ==
    <<NL>> \o JoinItems(ListItems(list_content), 1, ordered) \o <<NL, NL>>

(* re.sub(r'<ul[^>]*>(.*?)</ul>', lambda m: convert_list(m.group(1), ordered)) *)
RECURSIVE SubList(_, _, _, _)
SubList(s, opens, close, ordered) ==
    LET i == FirstIn(s, 1, opens)
        j == IF i = 0 THEN 0 ELSE FirstIn(s, i + 1, {close})
    IN  IF j = 0 THEN s
        ELSE Slice(s, 1, i - 1) \o convert_list(Slice(s, i + 1, j - 1), ordered)
             \o SubList(Slice(s, j + 1, Len(s)), opens, close, ordered)

(* re.sub of the image pattern src=... alt=... by ![alt](src): only an    *)
(* image tag whose src attribute comes before its alt attribute matches *)
SubImg(s) == [k \in 1..Len(s) |-> IF s[k] = ImgSrcAlt THEN "![t](u)" ELSE s[k]]

(* re.sub(r'<br[^>]*/?>', '\n') *)
SubBr(s) == [k \in 1..Len(s) |-> IF s[k] = "<br>" THEN NL ELSE s[k]]

(* re.sub(r'<[^>]+>', '', text): every remaining tag is dropped *)
StripTags(s) == SelectSeq(s, LAMBDA t : t \notin Tags)

(***************************************************************************)
(* re.sub(r'\n\s*\n\s*\n', '\n\n', text).  From a newline, the greedy      *)
(* match runs to the last newline of the white-space run that follows it,  *)
(* and needs two newlines in that run.                                     *)
(***************************************************************************)
RECURSIVE CollapseNewlines(_)
CollapseNewlines(s) ==
    LET i    == FirstIn(s, 1, {NL})
        nonw == IF i = 0 THEN 0
                ELSE FirstIn(s, i + 1, {s[k] : k \in 1..Len(s)} \ {SP, NL})
        stop == IF nonw = 0 THEN Len(s) ELSE nonw - 1
        nls  == {k \in (i + 1)..stop : s[k] = NL}
        last == CHOOSE k \in nls : \A m \in nls : k >= m
    IN  IF i = 0 THEN s
        ELSE IF Cardinality(nls) >= 2
             THEN Slice(s, 1, i - 1) \o <<NL, NL>>
                  \o CollapseNewlines(Slice(s, last + 1, Len(s)))
             ELSE Slice(s, 1, i) \o CollapseNewlines(Slice(s, i + 1, Len(s)))

(* UltraSmoothPreview.html_to_markdown *)
html_to_markdown(html) ==
    LET t0 == Strip(html)
        t1 == Headers(t0, 6)
        t2 == SubWrap(t1, {"<strong>"}, {"</strong>"}, <<"**">>, <<"**">>)
        t3 == SubWrap(t2, {"<em>"}, {"</em>"}, <<"*">>, <<"*">>)
        t4 == SubWrap(t3, {"<code>"}, {"</code>"}, <<BQ>>, <<BQ>>)
        t4a == SubWrap(t4, {AHref}, {"</a>"}, <<"[">>, <<"](u)">>)
        t4b == SubImg(t4a)
        t5 == SubWrap(t4b, {"<p>"}, {"</p>"}, << >>, <<NL, NL>>)
        t6 == SubBr(t5)
        t7 == SubList(t6, {"<ul>"}, "</ul>", FALSE)
        t8 == SubList(t7, {"<ol>", OlStart}, "</ol>", TRUE)
        t9 == StripTags(t8)
    IN  Strip(CollapseNewlines(t9))

(***************************************************************************)
(* markdown_processor.convert, for the block and inline constructs of the  *)
(* documents of this model: hash headings, setext headings of level 2,     *)
(* horizontal rules, tight bullet and numbered lists, paragraphs, strong   *)
(* emphasis.  Blocks are separated by blank lines; the rendered blocks are *)
(* joined by single newlines.                                              *)
(***************************************************************************)
(* the lines of a text, split at NL *)
RECURSIVE SplitLines(_)
SplitLines(s) ==
    LET i == FirstIn(s, 1, {NL})
    IN  IF i = 0 THEN <<s>>
        ELSE <<Slice(s, 1, i - 1)>> \o SplitLines(Slice(s, i + 1, Len(s)))

IsBlank(line) == \A k \in 1..Len(line) : line[k] = SP

(* number of leading "#" of a line, at most 6 *)
RECURSIVE HashCount(_)
HashCount(line) ==
    IF Len(line) > 0 /\ line[1] = "#" THEN 1 + HashCount(Tail(line)) ELSE 0

IsHeading(line) == HashCount(line) \in 1..6

IsBullet(line) == Len(line) >= 2 /\ line[1] = "-" /\ line[2] = SP

IsNumbered(line) ==
    Len(line) >= 2 /\ line[1] \in {NumTok[k] : k \in 1..Len(NumTok)} /\ line[2] = SP

(* a line of three hyphens: a horizontal rule, or the underline of a       *)
(* setext heading of level 2 when a text line stands before it             *)
IsFence(line) == line = <<"---">>

(* the strong-emphasis inline pattern: two stars, a non-empty run, two stars *)
RECURSIVE InlineStrong(_)
InlineStrong(s) ==
    LET i == FirstIn(s, 1, {"**"})
        j == IF i = 0 THEN 0 ELSE FirstIn(s, i + 2, {"**"})
    IN  IF j = 0 THEN s
        ELSE Slice(s, 1, i - 1) \o <<"<strong>">> \o Slice(s, i + 1, j - 1)
             \o <<"</strong>">> \o InlineStrong(Slice(s, j + 1, Len(s)))

(* the content of a code span is escaped for HTML: every ampersand becomes *)
(* the entity &amp;, whether or not it already begins an entity            *)
CodeEscape(t) ==
    CASE t = "&"     -> "&amp;"
      [] t = "&amp;" -> "&amp;amp;"
      [] t = "&amp;amp;" -> "&amp;amp;amp;"
      [] OTHER       -> t

(* the inline patterns in their order: the backquote pattern (a code span, *)
(* its content escaped and stripped and not scanned again), then strong    *)
(* emphasis                                                                *)
RECURSIVE Inline(_)
Inline(s) ==
    LET i == FirstIn(s, 1, {BQ})
        j == IF i = 0 THEN 0 ELSE FirstIn(s, i + 2, {BQ})
        c == Strip(Slice(s, i + 1, j - 1))
    IN  IF j = 0 THEN InlineStrong(s)
        ELSE InlineStrong(Slice(s, 1, i - 1)) \o <<"<code>">>
             \o [k \in 1..Len(c) |-> CodeEscape(c[k])]
             \o <<"</code>">> \o Inline(Slice(s, j + 1, Len(s)))

(* lines joined by NL *)
RECURSIVE JoinLines(_)
JoinLines(ls) ==
    IF Len(ls) = 0 THEN << >>
    ELSE IF Len(ls) = 1 THEN ls[1]
    ELSE ls[1] \o <<NL>> \o JoinLines(Tail(ls))

(* the list items of a block whose first line is an item: a line that is   *)
(* no item continues the item before it                                    *)
RECURSIVE BlockItems(_, _)
BlockItems(ls, ordered) ==
    IF Len(ls) = 0 THEN << >>
    ELSE LET rest  == BlockItems(Tail(ls), ordered)
             isIt  == IF ordered THEN IsNumbered(ls[1]) ELSE IsBullet(ls[1])
         IN  IF isIt THEN <<Strip(Slice(ls[1], 3, Len(ls[1])))>> \o rest
             ELSE rest

RECURSIVE RenderItems(_)
RenderItems(items) ==
    IF Len(items) = 0 THEN << >>
    ELSE <<"<li>">> \o Inline(items[1]) \o <<"</li>", NL>> \o RenderItems(Tail(items))

(* one block (consecutive non-blank lines), rendered *)
RECURSIVE RenderBlock(_)
RenderBlock(ls) ==
    LET hs == {k \in 1..Len(ls) : IsHeading(ls[k])}
        h  == CHOOSE k \in hs : \A m \in hs : k <= m
        n  == HashCount(ls[h])
    IN  IF Len(ls) = 0 THEN << >>
        ELSE IF hs # {}
        THEN (IF h > 1 THEN RenderBlock(Slice(ls, 1, h - 1)) \o <<NL>> ELSE << >>)
             \o <<HOpen[n]>> \o Inline(Strip(Slice(ls[h], n + 1, Len(ls[h]))))
             \o <<HClose[n]>>
             \o (IF h < Len(ls) THEN <<NL>> \o RenderBlock(Slice(ls, h + 1, Len(ls)))
                 ELSE << >>)
        ELSE IF Len(ls) >= 2 /\ IsFence(ls[2])
        THEN <<HOpen[2]>> \o Inline(Strip(ls[1])) \o <<HClose[2]>>
             \o (IF Len(ls) > 2 THEN <<NL>> \o RenderBlock(Slice(ls, 3, Len(ls)))
                 ELSE << >>)
        ELSE IF \E k \in 1..Len(ls) : IsFence(ls[k])
        THEN LET f == CHOOSE k \in 1..Len(ls) :
                        IsFence(ls[k]) /\ \A m \in 1..(k - 1) : ~IsFence(ls[m])
             IN  (IF f > 1 THEN RenderBlock(Slice(ls, 1, f - 1)) \o <<NL>> ELSE << >>)
                 \o <<"<hr />">>
                 \o (IF f < Len(ls) THEN <<NL>> \o RenderBlock(Slice(ls, f + 1, Len(ls)))
                     ELSE << >>)
        ELSE IF IsBullet(ls[1])
        THEN <<"<ul>", NL>> \o RenderItems(BlockItems(ls, FALSE)) \o <<"</ul>">>
        ELSE IF IsNumbered(ls[1])
        THEN <<"<ol>", NL>> \o RenderItems(BlockItems(ls, TRUE)) \o <<"</ol>">>
        ELSE <<"<p>">> \o Inline(Strip(JoinLines(ls))) \o <<"</p>">>

(* the blocks of a list of lines, rendered and joined by NL *)
RECURSIVE RenderLines(_, _)
RenderLines(ls, cur) ==
    IF Len(ls) = 0
    THEN RenderBlock(cur)
    ELSE IF IsBlank(ls[1])
    THEN LET rest == RenderLines(Tail(ls), << >>)
         IN  IF Len(cur) = 0 THEN rest
             ELSE IF Len(rest) = 0 THEN RenderBlock(cur)
             ELSE RenderBlock(cur) \o <<NL>> \o rest
    ELSE RenderLines(Tail(ls), Append(cur, ls[1]))

Render(markdown_text) == RenderLines(SplitLines(markdown_text), << >>)

(***************************************************************************)
(* update_content_smooth escapes the HTML for a JavaScript string literal  *)
(* (backslash, double quote, newline, carriage return, in that order) and  *)
(* the page reads the literal back.                                        *)
(***************************************************************************)
BSL == "\\"
DQ  == "\""

RECURSIVE EscapeJs(_)
EscapeJs(h) ==
    IF Len(h) = 0 THEN << >>
    ELSE (CASE h[1] = BSL -> <<BSL, BSL>>
            [] h[1] = DQ  -> <<BSL, DQ>>
            [] h[1] = NL  -> <<BSL, "n">>
            [] OTHER      -> <<h[1]>>) \o EscapeJs(Tail(h))

(* the value of the JavaScript string literal "..." *)
RECURSIVE JsLiteral(_)
JsLiteral(e) ==
    IF Len(e) = 0 THEN << >>
    ELSE IF e[1] = BSL /\ Len(e) >= 2
    THEN <<(IF e[2] = "n" THEN NL ELSE e[2])>> \o JsLiteral(Slice(e, 3, Len(e)))
    ELSE <<e[1]>> \o JsLiteral(Tail(e))

(***************************************************************************)
(* The documents and the edits of the model.                               *)
(***************************************************************************)
(* insert_markdown("**", "**") with no selection *)
BoldTemplate == <<"**", "text", "**">>

(* texts the user types into the source editor or opens from disk: the    *)
(* same line, without and with its line end                                *)
SrcDocs == { BoldTemplate, BoldTemplate \o <<NL>> }

(* contents the user's editing leaves in an editable rendered view: one   *)
(* paragraph, or nothing at all                                            *)
WysHtml == { << >>, <<"<p>", "<strong>", "text", "</strong>", "</p>">> }

(* longest source text a toolbar insertion may still extend *)
MaxLen == 3
(* innerHTML read-outs requested and not yet answered *)
MaxReads == 1

Views == {"preview", "wysiwyg"}
MARKDOWN == "markdown"
WYSIWYG  == "wysiwyg"
(* the initial _content_hash, the empty string: equal to no hash() value *)
NoHash == <<"str", << >> >>

(* hash(markdown_text): equal texts, equal hashes *)
Hash(t) == <<"int", t>>

(***************************************************************************)
(* Scrolling.  Heights are counted in lines: the source editor shows       *)
(* EditorViewport lines of its text, the preview page PageViewport blocks  *)
(* of its content.  Page offsets are kept in units of 1/SubPixel line, so  *)
(* that ratio * maxScroll is computed exactly for every ratio the editor   *)
(* emits.                                                                  *)
(***************************************************************************)
EditorViewport == 5
PageViewport == 1
SubPixel == 2

(* scrollbar.maximum() of the editor holding text *)
EditorMaximum(text) ==
    LET lines == Cardinality({k \in 1..Len(text) : text[k] = NL}) + 1
    IN  Max2(0, lines - EditorViewport)

(* Math.max(0, document.documentElement.scrollHeight - window.innerHeight)  *)
(* of the page whose content is html, in units of 1/SubPixel line          *)
PageMaxScroll(html) ==
    LET blocks == Cardinality({k \in 1..Len(html) :
                                 html[k] \in {"<p>", "<li>", "<hr />"}
                                             \cup {HOpen[i] : i \in 1..6}})
    IN  Max2(0, blocks - PageViewport) * SubPixel

(***************************************************************************)
(* DocumentOutline of sidebar_components.py.  An outline item is a heading *)
(* with its title, its level, its 0-based line number, and its parent in   *)
(* the tree: the index of the item it is a child of, 0 for a top-level     *)
(* item.  The children of an item, and the top-level items, stand in the   *)
(* order they were added.                                                  *)
(***************************************************************************)
(* re.match(r'^(#{1,6})\s+(.+)', line.strip()) *)
HeadingMatch(line) ==
    LET l == Strip(line)
        n == HashCount(l)
    IN  n \in 1..6 /\ Len(l) >= n + 2 /\ l[n + 1] = SP

(* group 2 of the match: what follows the white space after the hashes *)
HeadingTitle(line) ==
    LET l == Strip(line)
        n == HashCount(l)
    IN  Slice(l, FirstIn(l, n + 1, {l[k] : k \in 1..Len(l)} \ {SP, NL}), Len(l))

(* while stack and stack[-1]['level'] >= level: stack.pop() *)
RECURSIVE PopStack(_, _, _)
PopStack(stack, items, level) ==
    IF stack # << >> /\ items[stack[Len(stack)]].level >= level
    THEN PopStack(Slice(stack, 1, Len(stack) - 1), items, level)
    ELSE stack

(* the loop of update_outline from line index line_num (1-based here) on:  *)
(* the stack holds the indices of the open ancestors                       *)
RECURSIVE OutlineLoop(_, _, _, _)
OutlineLoop(lines, line_num, items, stack) ==
    IF line_num > Len(lines) THEN items
    ELSE IF HeadingMatch(lines[line_num])
    THEN LET level == HashCount(Strip(lines[line_num]))
             st    == PopStack(stack, items, level)
             item  == [title |-> HeadingTitle(lines[line_num]), level |-> level,
                       line |-> line_num - 1,
                       parent |-> IF st # << >> THEN st[Len(st)] ELSE 0]
         IN  OutlineLoop(lines, line_num + 1, Append(items, item),
                         Append(st, Len(items) + 1))
    ELSE OutlineLoop(lines, line_num + 1, items, stack)

(* update_outline without the clearing of the tree and of outline_items *)
update_outline_no_clear(o, text) ==
    [o EXCEPT !.items = OutlineLoop(SplitLines(text), 1, @, << >>)]

(* DocumentOutline.update_outline *)
update_outline(o, text) ==
    [o EXCEPT !.items = OutlineLoop(SplitLines(text), 1, << >>, << >>)]

(* items: outline_items with the tree; pending: the text captured by the   *)
(* single-shot timer of update_outline that was started last, if one is    *)
(* pending (the timers have one delay and expire in the order started, so  *)
(* the rebuild of the last one is the one that stays); followed: whether   *)
(* this run follows the sidebar at all                                     *)
NoOutline == [items |-> << >>, pending |-> << >>, followed |-> FALSE]

(* scrollbar.value() of the editor, window.pageYOffset of the preview page *)
(* and whether the timeout of the page's scroll listener is pending        *)
(* emitted: the scroll signals emitted while the current event is handled  *)
(* carried: the ratios those signals carry                                 *)
NoScroll == [ed_value |-> 0, pg_top |-> 0, pending |-> FALSE, emitted |-> {},
             carried |-> {}]

(* a scroll ratio value / maximum, kept as the fraction n / d; d = 0 is a  *)
(* division by zero                                                        *)
Ratio(n, d) == [n |-> n, d |-> d]

VARIABLES
    editor_text,    \* SmoothMarkdownEditor.toPlainText(): the Document
    is_modified,    \* EnhancedMainWindow.is_modified
    current_mode,   \* EnhancedMainWindow.current_mode
    toggle_mode,    \* OptimizedModeToggle.current_mode
    stack_index,    \* content_stack.currentIndex()
    syncing,        \* EnhancedMainWindow._syncing
    is_updating,    \* UltraSmoothPreview._is_updating, per view
    content_hash,   \* UltraSmoothPreview._content_hash, per view
    dom,            \* innerHTML of the page's #content, per view
    editable,       \* contentEditable of the page's #content, per view
    timers,         \* pending QTimer.singleShot(50, ...) closures, in order of expiry
    reads,          \* innerHTML read out of the WYSIWYG page, callback not yet run
    uncaught,       \* an exception has left a handler
    last,           \* the event handled last and what its handler decided
    component,      \* the object this run constructs and drives
    mp_is_updating,             \* MarkdownPreview.is_updating
    mp_last_markdown_content,   \* MarkdownPreview.last_markdown_content
    mp_dom,         \* content of the MarkdownPreview page's #content
    mp_timers,      \* MarkdownPreview's pending single-shot timers, as started
    cursor_position, \* textCursor().position() of the source editor
    outline,        \* DocumentOutline.outline_items, and the text of the pending rebuild
    current_file,   \* EnhancedMainWindow.current_file, in the runs that follow it
    scroll          \* scroll positions of the source editor and the preview page

vars == << editor_text, is_modified, current_mode, toggle_mode,
           stack_index, syncing, is_updating, content_hash, dom, editable,
           timers, reads, uncaught, last, component, mp_is_updating,
           mp_last_markdown_content, mp_dom, mp_timers,
           cursor_position, outline,
                    current_file, scroll >>

mp_vars == << mp_is_updating, mp_last_markdown_content, mp_dom, mp_timers >>

window_vars == << editor_text, is_modified, current_mode, toggle_mode,
                  stack_index, syncing, is_updating, content_hash, dom,
                  editable, timers, reads >>

(* the state the handlers of the window read and write *)
Py == [ editor_text |-> editor_text, is_modified |-> is_modified,
        current_mode |-> current_mode,
        toggle_mode |-> toggle_mode, stack_index |-> stack_index,
        syncing |-> syncing, is_updating |-> is_updating,
        content_hash |-> content_hash, dom |-> dom, editable |-> editable,
        reads |-> reads, timers |-> timers,
        cursor_position |-> cursor_position,
        outline |-> outline,
        current_file |-> current_file,
        scroll |-> [scroll EXCEPT !.emitted = {}, !.carried = {}],
        uncaught |-> uncaught, out |-> "none", push |-> "none" ]

Commit(s, ev, view) ==
    /\ component = "EnhancedMainWindow"
    /\ editor_text' = s.editor_text
    /\ is_modified' = s.is_modified
    /\ current_mode' = s.current_mode
    /\ toggle_mode' = s.toggle_mode
    /\ stack_index' = s.stack_index
    /\ syncing' = s.syncing
    /\ is_updating' = s.is_updating
    /\ content_hash' = s.content_hash
    /\ dom' = s.dom
    /\ editable' = s.editable
    /\ reads' = s.reads
    /\ timers' = s.timers
    /\ cursor_position' = s.cursor_position
    /\ outline' = s.outline
    /\ current_file' = s.current_file
    /\ scroll' = s.scroll
    /\ uncaught' = s.uncaught
    /\ last' = [ev |-> ev, view |-> view, out |-> s.out, push |-> s.push]
    /\ UNCHANGED << component, mp_vars >>

(***************************************************************************)
(* Handlers.  Each takes the state s it runs in and yields the state it    *)
(* leaves; ok = FALSE is markdown_processor.convert raising.               *)
(***************************************************************************)
(* the preview page after the script of update_content_smooth has written  *)
(* its content: window.scrollTo(0, scrollTop) restores the offset as far   *)
(* as the new content reaches, and an offset that moved raises the page's  *)
(* scroll event                                                            *)
PageAfterWrite(s, v) ==
    LET top == Min2(s.scroll.pg_top, PageMaxScroll(s.dom["preview"]))
    IN  IF v # "preview" THEN s
        ELSE [s EXCEPT !.scroll.pg_top = top,
                       !.scroll.pending = @ \/ top # s.scroll.pg_top]

(* update_content_smooth with the clearing timer started at the end of    *)
(* the try body and no except clause: a raising render leaves the flag    *)
(* set and the exception leaves the method                                 *)
update_content_smooth_no_finally(s, v, markdown_text, ed, ok) ==
    LET h  == Hash(markdown_text)
        s1 == [s EXCEPT !.is_updating[v] = TRUE, !.content_hash[v] = h]
        js == EscapeJs(Render(markdown_text))
    IN  IF h = s.content_hash[v] /\ ~s.is_updating[v]
        THEN [s EXCEPT !.push = "same"]
        ELSE IF s.is_updating[v]
        THEN [s EXCEPT !.push = "dropped"]
        ELSE IF ok
        THEN [PageAfterWrite([s1 EXCEPT !.dom[v] = JsLiteral(js),
                                        !.editable[v] = ed], v)
                  EXCEPT !.push = "pushed",
                         !.timers = Append(@, [kind |-> "updating", view |-> v])]
        ELSE [s1 EXCEPT !.push = "error", !.uncaught = TRUE]

(* UltraSmoothPreview.update_content_smooth *)
update_content_smooth(s, v, markdown_text, ed, ok) ==
    LET h  == Hash(markdown_text)
        s1 == [s EXCEPT !.is_updating[v] = TRUE, !.content_hash[v] = h]
        js == EscapeJs(Render(markdown_text))
        s2 == IF ok
              THEN [PageAfterWrite([s1 EXCEPT !.dom[v] = JsLiteral(js),
                                              !.editable[v] = ed], v)
                        EXCEPT !.push = "pushed"]
              ELSE [s1 EXCEPT !.push = "error"]
    IN  IF h = s.content_hash[v] /\ ~s.is_updating[v]
        THEN [s EXCEPT !.push = "same"]
        ELSE IF s.is_updating[v]
        THEN [s EXCEPT !.push = "dropped"]
        ELSE [s2 EXCEPT !.timers = Append(@, [kind |-> "updating", view |-> v])]

(* SmoothMarkdownEditor.set_content_silently: is_syncing is set around    *)
(* setPlainText, so on_text_changed and on_scroll_changed emit nothing;    *)
(* setPlainText puts the caret at 0, and the saved position is set again   *)
(* when it is not beyond the new text; the scroll bar's value stays        *)
(* within the range of the new text                                        *)
set_content_silently(s, content) ==
    [s EXCEPT !.editor_text = content,
              !.cursor_position = IF @ <= Len(content) THEN @ ELSE 0,
              !.scroll.ed_value = Min2(@, EditorMaximum(content))]

(* EnhancedMainWindow.on_editor_content_changed *)
on_editor_content_changed(s, ok) ==
    IF s.syncing THEN [s EXCEPT !.out = "guard"]
    ELSE IF s.current_mode # MARKDOWN THEN [s EXCEPT !.out = "mode"]
    ELSE update_content_smooth([s EXCEPT !.is_modified = TRUE, !.out = "honored",
                                         !.outline.pending =
                                             IF s.outline.followed
                                             THEN <<s.editor_text>> ELSE @],
                               "preview", s.editor_text, FALSE, ok)

(* EnhancedMainWindow.on_preview_content_edited *)
on_preview_content_edited(s, markdown_content) ==
    IF s.syncing THEN [s EXCEPT !.out = "guard"]
    ELSE IF s.current_mode # MARKDOWN THEN [s EXCEPT !.out = "mode"]
    ELSE [set_content_silently(s, markdown_content) EXCEPT
              !.syncing = TRUE, !.is_modified = TRUE, !.out = "honored",
              !.timers = Append(@, [kind |-> "syncing", view |-> "none"])]

(* EnhancedMainWindow.on_wysiwyg_content_edited *)
on_wysiwyg_content_edited(s, markdown_content) ==
    IF s.syncing THEN [s EXCEPT !.out = "guard"]
    ELSE IF s.current_mode # WYSIWYG THEN [s EXCEPT !.out = "mode"]
    ELSE [set_content_silently(s, markdown_content) EXCEPT
              !.syncing = TRUE, !.is_modified = TRUE, !.out = "honored",
              !.timers = Append(@, [kind |-> "syncing", view |-> "none"])]

(* on_content_edited without its _is_updating check *)
on_content_edited_unguarded(s, v, html_content) ==
    IF v = "preview"
    THEN on_preview_content_edited(s, html_to_markdown(html_content))
    ELSE on_wysiwyg_content_edited(s, html_to_markdown(html_content))

(* on_content_edited followed by a push of the editor text back into the   *)
(* view the notification came from                                         *)
on_content_edited_echo(s, v, html_content) ==
    LET s1 == IF s.is_updating[v] THEN [s EXCEPT !.out = "updating"]
              ELSE on_content_edited_unguarded(s, v, html_content)
    IN  update_content_smooth(s1, v, s1.editor_text, s1.editable[v], TRUE)

(* UltraSmoothPreview.on_content_edited, and the slot its content_edited  *)
(* signal is connected to in setup_connections                             *)
on_content_edited(s, v, html_content) ==
    IF s.is_updating[v] THEN [s EXCEPT !.out = "updating"]
    ELSE IF v = "preview"
    THEN on_preview_content_edited(s, html_to_markdown(html_content))
    ELSE on_wysiwyg_content_edited(s, html_to_markdown(html_content))

(* EnhancedMainWindow.set_editor_mode, with OptimizedModeToggle.set_mode *)
set_editor_mode(s, mode, ok) ==
    LET md == (mode = MARKDOWN)
        s1 == [s EXCEPT !.current_mode = mode,
                        !.stack_index = IF md THEN 0 ELSE 1]
    IN  IF s.current_mode = mode THEN s
        ELSE [update_content_smooth(s1, IF md THEN "preview" ELSE "wysiwyg",
                                    s.editor_text, ~md, ok)
                  EXCEPT !.toggle_mode = mode]

(* EnhancedMainWindow.sync_wysiwyg_to_editor *)
sync_wysiwyg_to_editor(s, markdown_content, ok) ==
    LET pulled == [set_content_silently(s, markdown_content) EXCEPT
                       !.is_modified = TRUE, !.out = "pulled"]
    IN  set_editor_mode(IF markdown_content # << >> /\ ~s.syncing
                        THEN pulled
                        ELSE [s EXCEPT !.out = IF s.syncing /\ markdown_content # << >>
                                               THEN "guard" ELSE "empty"],
                        MARKDOWN, ok)

(* the callback handle_html of UltraSmoothPreview.get_content_as_markdown *)
handle_html(s, html_content, ok) ==
    sync_wysiwyg_to_editor(s, IF html_content # << >>
                              THEN html_to_markdown(html_content)
                              ELSE << >>, ok)

(* UltraSmoothPreview.sync_scroll_position of the preview: the script sets *)
(* the page's offset to ratio * maxScroll, and an offset that moved raises *)
(* the page's scroll event                                                 *)
preview_sync_scroll_position(s, ratio) ==
    LET top == (ratio.n * PageMaxScroll(s.dom["preview"])) \div ratio.d
    IN  [s EXCEPT !.scroll.pg_top = top,
                  !.scroll.pending = @ \/ top # s.scroll.pg_top]

(* EnhancedMainWindow.on_editor_scroll_changed *)
on_editor_scroll_changed(s, ratio) ==
    IF ~s.syncing /\ s.current_mode = MARKDOWN
    THEN preview_sync_scroll_position(s, ratio)
    ELSE s

(* on_scroll_changed without its test of scrollbar.maximum() *)
on_scroll_changed_any_maximum(s, is_syncing) ==
    LET maximum == EditorMaximum(s.editor_text)
    IN  IF ~is_syncing
        THEN [s EXCEPT !.scroll.emitted = @ \cup {"editor.scroll_changed"},
                       !.scroll.carried = @ \cup {Ratio(s.scroll.ed_value, maximum)}]
        ELSE s

(* SmoothMarkdownEditor.on_scroll_changed, the slot of the scroll bar's    *)
(* valueChanged, with the slot its scroll_changed signal is connected to   *)
on_scroll_changed(s, is_syncing) ==
    LET maximum == EditorMaximum(s.editor_text)
        ratio   == Ratio(s.scroll.ed_value, maximum)
    IN  IF ~is_syncing /\ maximum > 0
        THEN on_editor_scroll_changed(
                 [s EXCEPT !.scroll.emitted = @ \cup {"editor.scroll_changed"},
                           !.scroll.carried = @ \cup {ratio}],
                 ratio)
        ELSE s

(* sync_scroll_position of the editor without its is_syncing flag *)
editor_sync_scroll_position_unguarded(s, ratio) ==
    LET new_value == (ratio.n * EditorMaximum(s.editor_text)) \div ratio.d
        s1 == [s EXCEPT !.scroll.ed_value = new_value]
    IN  IF new_value # s.scroll.ed_value THEN on_scroll_changed(s1, FALSE) ELSE s1

(* sync_scroll_position of the editor scaling the scroll bar's value       *)
(* instead of its maximum                                                  *)
editor_sync_scroll_position_of_value(s, ratio) ==
    LET new_value == (ratio.n * s.scroll.ed_value) \div ratio.d
        s1 == [s EXCEPT !.scroll.ed_value = new_value]
    IN  IF new_value # s.scroll.ed_value THEN on_scroll_changed(s1, TRUE) ELSE s1

(* SmoothMarkdownEditor.sync_scroll_position: is_syncing is clear on entry *)
(* (it is set only while a method of the editor runs), int() truncates,    *)
(* and setValue raises valueChanged while is_syncing is set                *)
editor_sync_scroll_position(s, ratio) ==
    LET new_value == (ratio.n * EditorMaximum(s.editor_text)) \div ratio.d
        s1 == [s EXCEPT !.scroll.ed_value = new_value]
    IN  IF new_value # s.scroll.ed_value THEN on_scroll_changed(s1, TRUE) ELSE s1

(* EnhancedMainWindow.sync_editor_scroll, the slot of the preview's        *)
(* scroll_sync_requested                                                   *)
sync_editor_scroll(s, ratio) ==
    IF ~s.syncing /\ s.current_mode = MARKDOWN
    THEN editor_sync_scroll_position(s, ratio)
    ELSE s

(* the scroll bar's range follows the text the user has edited: a value    *)
(* beyond the new maximum is set to it, which raises valueChanged; the     *)
(* caret stays within the text                                             *)
EditorAfterEdit(s) ==
    LET maximum == EditorMaximum(s.editor_text)
        s1 == [s EXCEPT !.cursor_position = Min2(@, Len(s.editor_text))]
    IN  IF s.scroll.ed_value > maximum
        THEN on_scroll_changed([s1 EXCEPT !.scroll.ed_value = maximum], FALSE)
        ELSE s1

(* self.current_file of a window that has no file *)
None == "None"

(* the value of current_file in the runs that leave the file's name out:   *)
(* they keep it, and a save in them writes or fails to write, whichever    *)
(* way it finds its file                                                   *)
Unfollowed == "unfollowed"

(* current_file after self.current_file = file_path *)
FileSet(s, file_path) == IF s.current_file = Unfollowed THEN Unfollowed ELSE file_path

(* EnhancedMainWindow.save_to_file: a failed write is caught and changes  *)
(* nothing                                                                 *)
save_to_file(s, file_path, written) ==
    IF written THEN [s EXCEPT !.is_modified = FALSE] ELSE s

(* EnhancedMainWindow.save_file_as: file_path is the file picked in the    *)
(* dialog (b.md in the runs of this model), the empty string when the      *)
(* dialog is dismissed                                                     *)
save_file_as(s, file_path, written) ==
    IF file_path # ""
    THEN [save_to_file(s, file_path, written) EXCEPT
              !.current_file = FileSet(s, file_path)]
    ELSE s

(* EnhancedMainWindow.save_file *)
save_file(s, file_path, written) ==
    IF s.current_file # None
    THEN save_to_file(s, s.current_file, written)
    ELSE save_file_as(s, file_path, written)

(* what the user may answer to "save changes?" so that the operation goes *)
(* on: Save with the write succeeding, or Discard; nothing is asked when   *)
(* the Document is not modified                                            *)
Replies ==
    IF is_modified THEN {"Save", "Discard"} ELSE {"NotAsked"}

(* the answers after which the operation is given up: Save with the write  *)
(* raising, Save with the Save-As dialog dismissed (when the window has no *)
(* file), or Cancel                                                        *)
Refusals ==
    IF is_modified
    THEN {"SaveFails", "Cancel"}
         \cup (IF current_file = None THEN {"SaveDismissed"} ELSE {})
    ELSE {}

(* EnhancedMainWindow.check_save_changes: the state it leaves, and its     *)
(* answer in field out ("proceed" or "cancel")                             *)
check_save_changes(s, reply) ==
    IF s.is_modified /\ reply \in {"Save", "SaveFails", "SaveDismissed"}
    THEN LET s1 == save_file(s, IF reply = "SaveDismissed" THEN "" ELSE "b.md",
                             reply = "Save")
         IN  [s1 EXCEPT !.out = IF s1.is_modified THEN "cancel" ELSE "proceed"]
    ELSE IF s.is_modified /\ reply = "Cancel"
    THEN [s EXCEPT !.out = "cancel"]
    ELSE [s EXCEPT !.out = "proceed"]

(***************************************************************************)
(* Events.                                                                 *)
(***************************************************************************)
Init ==
    /\ editor_text = << >>
    /\ is_modified = FALSE
    /\ current_mode = MARKDOWN
    /\ toggle_mode = MARKDOWN
    /\ stack_index = 0
    /\ syncing = FALSE
    /\ is_updating = [v \in Views |-> FALSE]
    /\ content_hash = [v \in Views |-> NoHash]
    /\ dom = [v \in Views |-> << >>]
    /\ editable = [v \in Views |-> FALSE]
    /\ timers = << >>
    /\ reads = << >>
    /\ uncaught = FALSE
    /\ last = [ev |-> "Init", view |-> "none", out |-> "none", push |-> "none"]
    /\ component \in {"EnhancedMainWindow", "MarkdownPreview"}
    /\ mp_is_updating = FALSE
    /\ mp_last_markdown_content = << >>
    /\ mp_dom = << >>
    /\ mp_timers = << >>
    /\ cursor_position = 0
    /\ outline = NoOutline
    /\ current_file = Unfollowed
    /\ scroll = NoScroll

(* a keystroke in the source editor, which is on screen: textChanged ->    *)
(* on_text_changed -> content_changed -> on_editor_content_changed         *)
SourceEdit(t, ok) ==
    /\ stack_index = 0
    /\ t # editor_text
    /\ Commit(on_editor_content_changed(
                  EditorAfterEdit([Py EXCEPT !.editor_text = t]), ok),
              "SourceEdit", "none")

(* the toolbar's Bold action: EnhancedMainWindow.insert_markdown ->        *)
(* SmoothMarkdownEditor.insert_markdown, no selection, caret at p          *)
ToolbarBold(p, ok) ==
    /\ Len(editor_text) + Len(BoldTemplate) <= MaxLen
    /\ LET t == Slice(editor_text, 1, p) \o BoldTemplate
                \o Slice(editor_text, p + 1, Len(editor_text))
       IN  Commit(on_editor_content_changed([Py EXCEPT !.editor_text = t], ok),
                  "ToolbarBold", "none")

(* EnhancedMainWindow.new_file *)
NewFile(reply, ok) ==
    LET s0 == check_save_changes(Py, reply)
        s1 == on_editor_content_changed([s0 EXCEPT !.editor_text = << >>], ok)
    IN  Commit(IF s0.out = "proceed"
               THEN [s1 EXCEPT !.current_file = FileSet(s0, None),
                               !.is_modified = FALSE]
               ELSE s0,
               "NewFile", "none")

(* EnhancedMainWindow.open_file, the file a.md being chosen and read:      *)
(* content is the file's text                                              *)
OpenFile(content, reply, ok) ==
    LET s0 == check_save_changes(Py, reply)
        s1 == on_editor_content_changed([s0 EXCEPT !.editor_text = content], ok)
    IN  Commit(IF s0.out = "proceed"
               THEN [s1 EXCEPT !.current_file = FileSet(s0, "a.md"),
                               !.is_modified = FALSE]
               ELSE s0,
               "OpenFile", "none")

(* EnhancedMainWindow.closeEvent: the event is accepted when               *)
(* check_save_changes answers "proceed", ignored otherwise                 *)
CloseEvent(reply) ==
    Commit(check_save_changes(Py, reply), "CloseEvent", "none")

(* OptimizedModeToggle.toggle_mode -> mode_changed -> on_mode_changed *)
ToggleMode(ok) ==
    LET new_mode == IF toggle_mode = MARKDOWN THEN WYSIWYG ELSE MARKDOWN
    IN  Commit(set_editor_mode([Py EXCEPT !.toggle_mode = new_mode], new_mode, ok),
               "ToggleMode", "none")

(* EnhancedMainWindow.switch_to_markdown_mode (menu, Ctrl+1), with         *)
(* get_content_as_markdown issuing the read-out                            *)
SwitchToMarkdownMode(ok) ==
    IF current_mode = WYSIWYG
    THEN /\ Len(reads) < MaxReads
         /\ Commit([Py EXCEPT !.reads = Append(@, dom["wysiwyg"]),
                              !.out = "readout"],
                   "SwitchToMarkdownMode", "wysiwyg")
    ELSE Commit(set_editor_mode(Py, MARKDOWN, ok), "SwitchToMarkdownMode", "none")

(* EnhancedMainWindow.switch_to_wysiwyg_mode (menu, Ctrl+2) *)
SwitchToWysiwygMode(ok) ==
    /\ Commit(set_editor_mode(Py, WYSIWYG, ok), "SwitchToWysiwygMode", "none")

(* the user edits the editable, visible view v, leaving content h: the    *)
(* page's 'input' listener calls bridge.on_content_changed(innerHTML),     *)
(* which reaches UltraSmoothPreview.on_content_edited                      *)
UserEditRendered(v, h) ==
    /\ editable[v]
    /\ stack_index = (IF v = "preview" THEN 0 ELSE 1)
    /\ h # dom[v]
    /\ Commit(on_content_edited([Py EXCEPT !.dom[v] = h], v, h),
              "UserEditRendered", v)

(* an 'input' event dispatched on view v with its content as it is: the    *)
(* listener is installed on every page and does not look at contentEditable *)
SimulatedInput(v) ==
    /\ Commit(on_content_edited(Py, v, dom[v]), "SimulatedInput", v)

(* the read-out's result reaches handle_html *)
DeliverRead(ok) ==
    /\ reads # << >>
    /\ Commit(handle_html([Py EXCEPT !.reads = Tail(@)], Head(reads), ok),
              "DeliverRead", "wysiwyg")

(* the single-shot timer that expires first *)
TimerFire ==
    /\ timers # << >>
    /\ LET t == Head(timers)
           s == IF t.kind = "syncing"
                THEN [Py EXCEPT !.syncing = FALSE, !.timers = Tail(@), !.out = t.kind]
                ELSE [Py EXCEPT !.is_updating[t.view] = FALSE, !.timers = Tail(@),
                                !.out = t.kind]
       IN  Commit(s, "TimerFire", t.view)

(***************************************************************************)
(* MarkdownPreview of editor_components.py, driven on its own: the host    *)
(* calls update_preview, the timers it starts expire.                      *)
(***************************************************************************)
(* pending timers of one MarkdownPreview *)
MaxMpTimers == 4

Mp == [ is_updating |-> mp_is_updating,
        last_markdown_content |-> mp_last_markdown_content,
        dom |-> mp_dom, timers |-> mp_timers, uncaught |-> uncaught,
        out |-> "none", push |-> "none" ]

MpCommit(s, ev) ==
    /\ component = "MarkdownPreview"
    /\ mp_is_updating' = s.is_updating
    /\ mp_last_markdown_content' = s.last_markdown_content
    /\ mp_dom' = s.dom
    /\ mp_timers' = s.timers
    /\ uncaught' = s.uncaught
    /\ last' = [ev |-> ev, view |-> "mp", out |-> s.out, push |-> s.push]
    /\ UNCHANGED << component, window_vars, cursor_position, outline,
                    current_file, scroll >>

(* MarkdownPreview._do_html_update: the texts of SrcDocs have no line      *)
(* break inside a paragraph, so the nl2br extension changes nothing        *)
do_html_update(s, markdown_text, ok) ==
    IF ok THEN [s EXCEPT !.dom = Render(markdown_text), !.push = "pushed"]
    ELSE [s EXCEPT !.is_updating = FALSE, !.push = "error"]

(* MarkdownPreview.update_preview *)
update_preview(s, markdown_text, preserve_scroll, ok) ==
    LET s1 == [s EXCEPT !.is_updating = TRUE,
                        !.last_markdown_content = markdown_text,
                        !.out = "accepted"]
        clear == [kind |-> "clear", text |-> << >>]
    IN  IF s.is_updating \/ markdown_text = s.last_markdown_content
        THEN [s EXCEPT !.out = "skipped"]
        ELSE IF /\ s.last_markdown_content # << >>
                /\ Strip(markdown_text) = Strip(s.last_markdown_content)
        THEN [s EXCEPT !.out = "whitespace"]
        ELSE IF preserve_scroll
        THEN [s1 EXCEPT !.timers = @ \o << [kind |-> "update", text |-> markdown_text],
                                           clear >>,
                        !.push = "deferred"]
        ELSE [do_html_update(s1, markdown_text, ok) EXCEPT
                  !.timers = Append(@, clear)]

(* the host calls update_preview *)
UpdatePreview(t, preserve_scroll, ok) ==
    /\ Len(mp_timers) + 2 <= MaxMpTimers
    /\ MpCommit(update_preview(Mp, t, preserve_scroll, ok), "UpdatePreview")

(* the i-th pending timer expires: timers of one delay expire in the order *)
(* started, and a 10 ms timer before every 300 ms timer started after it   *)
MpTimerFire(i, ok) ==
    /\ i \in 1..Len(mp_timers)
    /\ \A j \in 1..(i - 1) :
          /\ mp_timers[j].kind # mp_timers[i].kind
          /\ mp_timers[j].kind # "update"
    /\ LET t == mp_timers[i]
           rest == Slice(mp_timers, 1, i - 1) \o Slice(mp_timers, i + 1, Len(mp_timers))
           s == [Mp EXCEPT !.timers = rest, !.out = t.kind]
       IN  IF t.kind = "update"
           THEN MpCommit(do_html_update(s, t.text, ok), "MpTimerFire")
           ELSE MpCommit([s EXCEPT !.is_updating = FALSE], "MpTimerFire")

Next ==
    \/ \E t \in SrcDocs \cup {<< >>}, ok \in BOOLEAN : SourceEdit(t, ok)
    \/ \E p \in {0, Len(editor_text)}, ok \in BOOLEAN : ToolbarBold(p, ok)
    \/ \E reply \in Replies, ok \in BOOLEAN : NewFile(reply, ok)
    \/ \E content \in SrcDocs, reply \in Replies, ok \in BOOLEAN :
          OpenFile(content, reply, ok)
    \/ \E ok \in BOOLEAN : ToggleMode(ok)
    \/ \E ok \in BOOLEAN : SwitchToMarkdownMode(ok)
    \/ \E ok \in BOOLEAN : SwitchToWysiwygMode(ok)
    \/ \E v \in Views, h \in WysHtml : UserEditRendered(v, h)
    \/ \E v \in Views : SimulatedInput(v)
    \/ \E ok \in BOOLEAN : DeliverRead(ok)
    \/ TimerFire
    \/ \E t \in SrcDocs \cup {<< >>}, preserve_scroll \in BOOLEAN, ok \in BOOLEAN :
          UpdatePreview(t, preserve_scroll, ok)
    \/ \E i \in 1..MaxMpTimers, ok \in BOOLEAN : MpTimerFire(i, ok)

Spec == Init /\ [][Next]_vars

(***************************************************************************)
(* Properties.                                                             *)
(***************************************************************************)
(* the events that deliver a change notification of a rendered view, and   *)
(* those that deliver one of the source editor                             *)
RenderedNote(r) == r.ev \in {"UserEditRendered", "SimulatedInput"}
SourceNote(r) == r.ev \in {"SourceEdit", "ToolbarBold"}

(* nothing was pushed to a rendered view and no guard window was opened *)
NoPushStarted ==
    /\ content_hash' = content_hash
    /\ is_updating' = is_updating
    /\ syncing' = syncing
    /\ timers' = timers

(* the view the stacked widget shows *)
Shown(i) == IF i = 0 THEN "preview" ELSE "wysiwyg"

(* C1: a change notification of a rendered view that arrives while that    *)
(* view's _is_updating flag is set, or while _syncing is set, leaves the    *)
(* editor text and is_modified as they are and starts no push; a change     *)
(* notification of the source editor that arrives while _syncing is set     *)
(* leaves is_modified as it is and starts no push.                          *)
C1_GuardFlagInvariant ==
    [][ /\ (RenderedNote(last') /\ (is_updating[last'.view] \/ syncing))
            => (editor_text' = editor_text /\ is_modified' = is_modified
                /\ NoPushStarted)
        /\ (SourceNote(last') /\ syncing)
            => (is_modified' = is_modified /\ dom' = dom /\ NoPushStarted)
      ]_vars

(* C1 witness: the user has edited the WYSIWYG view while its _is_updating *)
(* flag was set, and the notification was dropped.                         *)
C1_Witness ==
    /\ last.ev = "UserEditRendered"
    /\ last.out = "updating"
    /\ editor_text # html_to_markdown(dom["wysiwyg"])

(* C2: when the preview's guard window closes right after an honoured      *)
(* source edit and nothing else is pending, the push made for the burst    *)
(* carried the text of that last edit.                                     *)
C2_BurstPushCarriesLastEdit ==
    [][ ( /\ last.ev = "SourceEdit" /\ last.out = "honored"
          /\ last'.ev = "TimerFire" /\ last'.view = "preview"
          /\ timers' = << >> )
        => content_hash'["preview"] = Hash(editor_text')
      ]_vars

(* C3: when the _syncing window closes right after a notification of the   *)
(* editable WYSIWYG view that reached the window, and nothing else is       *)
(* pending, the editor text is the conversion of the HTML that last         *)
(* notification carried.                                                    *)
C3_LastNotificationWins ==
    [][ ( /\ last.ev = "UserEditRendered" /\ last.out \in {"honored", "guard"}
          /\ last'.ev = "TimerFire" /\ last'.out = "syncing"
          /\ timers' = << >> )
        => editor_text' = html_to_markdown(dom'["wysiwyg"])
      ]_vars

(* C4: when the read-out delivered on the way back to MARKDOWN mode is the *)
(* rendering of the current editor text, the editor text and is_modified   *)
(* stay as they are.                                                       *)
C4_ReadBackIsNoOp ==
    [][ ( /\ last'.ev = "DeliverRead"
          /\ reads # << >>
          /\ Head(reads) = Render(editor_text) )
        => (editor_text' = editor_text /\ is_modified' = is_modified)
      ]_vars

(* C5: in MARKDOWN mode a notification of a rendered view changes neither  *)
(* the editor text nor is_modified; in WYSIWYG mode a notification of the  *)
(* source editor pushes nothing to a rendered view.                        *)
C5_ReadOnlySideNotAuthoritative ==
    [][ /\ (current_mode = MARKDOWN /\ RenderedNote(last'))
            => (editor_text' = editor_text /\ is_modified' = is_modified)
        /\ (current_mode = WYSIWYG /\ SourceNote(last'))
            => (dom' = dom /\ NoPushStarted)
      ]_vars

(* C6: in MARKDOWN mode no rendered view is editable, and in WYSIWYG mode  *)
(* a toolbar insertion does not change the editor text.                    *)
C6_ModeExclusivity ==
    [][ /\ current_mode' = MARKDOWN => \A v \in Views : ~editable'[v]
        /\ (current_mode = WYSIWYG /\ last'.ev = "ToolbarBold")
            => editor_text' = editor_text
      ]_vars

(* C7: a step of the toggle button from WYSIWYG to MARKDOWN mode, taken    *)
(* when the WYSIWYG view is not empty, holds something other than the      *)
(* rendering of the editor text, _syncing is clear and no rendering        *)
(* raises, leaves in the editor the conversion of the WYSIWYG view's HTML. *)
C7_ToggleReadsOutFirst ==
    [][ ( /\ current_mode = WYSIWYG /\ current_mode' = MARKDOWN
          /\ last'.ev = "ToggleMode" /\ last'.push # "error"
          /\ dom["wysiwyg"] # << >> /\ dom["wysiwyg"] # Render(editor_text)
          /\ ~syncing )
        => editor_text' = html_to_markdown(dom["wysiwyg"])
      ]_vars

(* C8: after a switch from MARKDOWN to WYSIWYG mode in which rendering did *)
(* not raise, an editable WYSIWYG view holds the rendering of the editor   *)
(* text.                                                                   *)
C8_WysiwygRefreshedOnEntry ==
    [][ ( /\ current_mode = MARKDOWN /\ current_mode' = WYSIWYG
          /\ last'.push # "error"
          /\ editable'["wysiwyg"] )
        => dom'["wysiwyg"] = Render(editor_text')
      ]_vars

(* a timer that will clear the flag is pending *)
ClearPending(ts, kind, view) ==
    \E i \in 1..Len(ts) : ts[i].kind = kind /\ ts[i].view = view

C10_RenderedViewFollowsDocument ==
    [][ (editor_text' # editor_text /\ last'.push # "error")
        => dom'[Shown(stack_index')] = Render(editor_text')
      ]_vars
(* C11: a read-out callback that runs in MARKDOWN mode right after the     *)
(* user's keystroke in the source editor was honored leaves the editor     *)
(* text as the user typed it.                                              *)
C11_ReadOutKeepsTypedText ==
    [][ ( /\ last.ev = "SourceEdit" /\ last.out = "honored"
          /\ current_mode = MARKDOWN /\ stack_index = 0
          /\ last'.ev = "DeliverRead" )
        => editor_text' = editor_text
      ]_vars


(***************************************************************************)
(* Documents with front matter.  The window is driven from construction:   *)
(* a file that begins with a front-matter block is opened, the modes are   *)
(* switched, the user edits the body in the WYSIWYG view.                  *)
(***************************************************************************)
(* a file with a front-matter block and one line of body *)
FrontMatterDoc == <<"---", NL, "title", NL, "---", NL, "text">>

(* DocumentManager.extract_content_without_front_matter splits the text at *)
(* the first two '---': the leading block is the text up to and including  *)
(* the second one, empty when the text has no front matter                 *)
FrontMatterBlock(text) ==
    LET j == IF Len(text) > 0 /\ text[1] = "---" THEN FirstIn(text, 2, {"---"}) ELSE 0
    IN  IF j = 0 THEN << >> ELSE Slice(text, 1, j)

(* what the user's editing of the body leaves in the WYSIWYG view: the     *)
(* rendering of the file with one more paragraph                           *)
FrontMatterHtml == { Render(FrontMatterDoc) \o <<NL, "<p>", "text", "</p>">> }

NextFrontMatter ==
    \/ \E reply \in Replies, ok \in BOOLEAN : OpenFile(FrontMatterDoc, reply, ok)
    \/ \E ok \in BOOLEAN : ToggleMode(ok)
    \/ \E ok \in BOOLEAN : SwitchToMarkdownMode(ok)
    \/ \E v \in Views, h \in FrontMatterHtml : UserEditRendered(v, h)
    \/ \E ok \in BOOLEAN : DeliverRead(ok)
    \/ TimerFire

SpecFrontMatter == Init /\ [][NextFrontMatter]_vars

(* C12: a rendered-to-source push into a Document that begins with a       *)
(* front-matter block leaves that block as it was.                         *)
C12_FrontMatterPreserved ==
    [][ ( /\ FrontMatterBlock(editor_text) # << >>
          /\ last'.ev \in {"UserEditRendered", "DeliverRead"}
          /\ last'.out \in {"honored", "pulled"} )
        => FrontMatterBlock(editor_text') = FrontMatterBlock(editor_text)
      ]_vars


(***************************************************************************)
(* The round trip on its own: a text is rendered as update_content_smooth  *)
(* renders it and the HTML is converted back by html_to_markdown, pass     *)
(* after pass.  editor_text holds the text, dom["wysiwyg"] the HTML.       *)
(***************************************************************************)
(* one-line blocks the texts are made of *)
RoundTripBlocks ==
    { <<"text">>, <<"**", "text", "**">>, <<"#", SP, "text">>,
      <<"-", SP, "text">>, <<"1.", SP, "text">>, <<BQ, "&", BQ>>, <<"---">> }

(* the texts: one block, or two blocks with a line end or a blank line      *)
(* between them                                                            *)
RoundTripDocs ==
    RoundTripBlocks \cup
    { a \o sep \o b : a \in RoundTripBlocks, b \in RoundTripBlocks,
                      sep \in {<<NL>>, <<NL, NL>>} }

(* round trips made of one text *)
MaxPasses == 2

InitRoundTrip ==
    /\ editor_text \in RoundTripDocs
    /\ is_modified = FALSE
    /\ current_mode = MARKDOWN
    /\ toggle_mode = MARKDOWN
    /\ stack_index = 0
    /\ syncing = FALSE
    /\ is_updating = [v \in Views |-> FALSE]
    /\ content_hash = [v \in Views |-> NoHash]
    /\ dom = [v \in Views |-> << >>]
    /\ editable = [v \in Views |-> FALSE]
    /\ timers = << >>
    /\ reads = << >>
    /\ uncaught = FALSE
    /\ last = [ev |-> "Init", view |-> "none", out |-> "raw", push |-> "none"]
    /\ component = "RoundTrip"
    /\ mp_is_updating = FALSE
    /\ mp_last_markdown_content = << >>
    /\ mp_dom = << >>
    /\ mp_timers = << >>
    /\ cursor_position = 0
    /\ outline = NoOutline
    /\ current_file = Unfollowed
    /\ scroll = NoScroll

(* names of the texts by the number of round trips behind them *)
PassName == <<"raw", "normalized", "again", "thrice", "more">>

PassesDone(r) == CHOOSE n \in 0..MaxPasses : PassName[n + 1] = r.out

(* markdown_processor.convert applied to the text *)
RoundTripRender ==
    /\ last.ev \in {"Init", "Convert"}
    /\ PassesDone(last) < MaxPasses
    /\ dom' = [dom EXCEPT !["wysiwyg"] = Render(editor_text)]
    /\ last' = [last EXCEPT !.ev = "Render"]
    /\ UNCHANGED << editor_text, is_modified, current_mode, toggle_mode,
                    stack_index, syncing, is_updating, content_hash, editable,
                    timers, reads, uncaught, component, mp_vars,
                    cursor_position, outline,
                    current_file, scroll >>

(* html_to_markdown applied to the HTML *)
RoundTripConvert ==
    /\ last.ev = "Render"
    /\ editor_text' = html_to_markdown(dom["wysiwyg"])
    /\ last' = [last EXCEPT !.ev = "Convert", !.out = PassName[PassesDone(last) + 2]]
    /\ UNCHANGED << is_modified, current_mode, toggle_mode, stack_index,
                    syncing, is_updating, content_hash, dom, editable,
                    timers, reads, uncaught, component, mp_vars,
                    cursor_position, outline,
                    current_file, scroll >>

NextRoundTrip == RoundTripRender \/ RoundTripConvert

SpecRoundTrip == InitRoundTrip /\ [][NextRoundTrip]_vars

(* C13: the text that one round trip yields is a fixed point of the round  *)
(* trip: converting the rendering of a normalized text gives that text.    *)
C13_RoundTripStable ==
    [][ (last.out = "normalized" /\ last'.ev = "Convert")
        => editor_text' = editor_text ]_vars


(***************************************************************************)
(* Scrolling of the source editor and the preview page in the window.      *)
(***************************************************************************)
(* a text of one line and a text of seven lines, four paragraphs *)
ShortDoc == <<"text">>
LongDoc == <<"text", NL, NL, "text", NL, NL, "text", NL, NL, "text">>
ScrollDocs == {ShortDoc, LongDoc}

(* the user moves the scroll bar of the source editor to v: valueChanged   *)
(* -> on_scroll_changed                                                    *)
SourceScroll(v) ==
    /\ stack_index = 0
    /\ v \in 0..EditorMaximum(editor_text)
    /\ v # scroll.ed_value
    /\ Commit(on_scroll_changed([Py EXCEPT !.scroll.ed_value = v], FALSE),
              "SourceScroll", "none")

(* the user scrolls the preview page to line t: the page's scroll listener *)
(* starts its timeout                                                      *)
PreviewScroll(t) ==
    /\ stack_index = 0
    /\ t * SubPixel \in 0..PageMaxScroll(dom["preview"])
    /\ t * SubPixel # scroll.pg_top
    /\ Commit([Py EXCEPT !.scroll.pg_top = t * SubPixel, !.scroll.pending = TRUE],
              "PreviewScroll", "preview")

(* the timeout of the preview page's scroll listener expires:              *)
(* bridge.on_scroll_changed(ratio) -> scroll_changed ->                    *)
(* scroll_sync_requested -> sync_editor_scroll                             *)
PageScrollEvent ==
    /\ scroll.pending
    /\ LET scrollHeight == PageMaxScroll(dom["preview"])
           ratio == IF scrollHeight > 0 THEN Ratio(scroll.pg_top, scrollHeight)
                    ELSE Ratio(0, 1)
           s == [Py EXCEPT !.scroll.pending = FALSE,
                           !.scroll.emitted = {"preview.scroll_sync_requested"},
                           !.scroll.carried = {ratio}]
       IN  Commit(sync_editor_scroll(s, ratio), "PageScrollEvent", "preview")

NextScroll ==
    \/ \E t \in ScrollDocs, ok \in BOOLEAN : SourceEdit(t, ok)
    \/ \E v \in 0..EditorMaximum(LongDoc) : SourceScroll(v)
    \/ \E t \in 0..(PageMaxScroll(Render(LongDoc)) \div SubPixel) : PreviewScroll(t)
    \/ PageScrollEvent
    \/ \E ok \in BOOLEAN : ToggleMode(ok)
    \/ \E h \in WysHtml : UserEditRendered("wysiwyg", h)
    \/ TimerFire

SpecScroll == Init /\ [][NextScroll]_vars

(* the preview page stands at ratio value / maximum of the editor *)
PageFollowsEditor ==
    scroll'.pg_top * EditorMaximum(editor_text')
        = scroll'.ed_value * PageMaxScroll(dom'["preview"])

(* C14 as stated: every ratio the source editor emits on a user scroll in  *)
(* MARKDOWN mode sets the preview page's offset to ratio * maxScroll.      *)
C14_EveryRatioPropagates ==
    [][ ( /\ last'.ev = "SourceScroll" /\ current_mode = MARKDOWN
          /\ "editor.scroll_changed" \in scroll'.emitted )
        => PageFollowsEditor ]_vars

(* C14, amended: a ratio the source editor emits on a user scroll in       *)
(* MARKDOWN mode while _syncing is clear sets the preview page's offset to *)
(* ratio * maxScroll; and the scroll event of the preview page, which      *)
(* that programmatic scroll raises, makes the editor emit no               *)
(* scroll_changed.                                                         *)
C14_ScrollPropagatesNoRetrigger ==
    [][ /\ ( /\ last'.ev = "SourceScroll" /\ current_mode = MARKDOWN
             /\ ~syncing /\ "editor.scroll_changed" \in scroll'.emitted )
            => PageFollowsEditor
        /\ last'.ev = "PageScrollEvent"
            => "editor.scroll_changed" \notin scroll'.emitted
      ]_vars

(* the editor was scrolled to half of its range, the page followed, and    *)
(* the page's scroll event has been handled                                *)
C14_Witness ==
    /\ last.ev = "PageScrollEvent"
    /\ current_mode = MARKDOWN /\ ~syncing
    /\ scroll.ed_value = 1 /\ EditorMaximum(editor_text) = 2
    /\ scroll.pg_top * 2 = PageMaxScroll(dom["preview"])
    /\ scroll.pg_top > 0


(***************************************************************************)
(* The ratio mapping on its own: a text of some height is open and         *)
(* rendered, and ratios are applied to the source editor and to the        *)
(* preview page.                                                           *)
(***************************************************************************)
(* paragraphs of the longest text, and the largest denominator of a ratio  *)
MaxParagraphs == 5
MaxDen == 3

(* a text of p one-line paragraphs with blank lines between them *)
RECURSIVE Paragraphs(_)
Paragraphs(p) ==
    IF p <= 1 THEN <<"text">> ELSE Paragraphs(p - 1) \o <<NL, NL, "text">>

(* the ratios n / d of [0, 1] *)
Ratios == { Ratio(n, d) : n \in 0..MaxDen, d \in 1..MaxDen } \cap
          { r \in [n : 0..MaxDen, d : 1..MaxDen] : r.n <= r.d }

InitRatio ==
    /\ \E p \in 1..MaxParagraphs :
          /\ editor_text = Paragraphs(p)
          /\ dom = [v \in Views |-> IF v = "preview" THEN Render(Paragraphs(p))
                                    ELSE << >>]
          /\ content_hash = [v \in Views |-> IF v = "preview"
                                             THEN Hash(Paragraphs(p)) ELSE NoHash]
    /\ is_modified = FALSE
    /\ current_mode = MARKDOWN
    /\ toggle_mode = MARKDOWN
    /\ stack_index = 0
    /\ syncing = FALSE
    /\ is_updating = [v \in Views |-> FALSE]
    /\ editable = [v \in Views |-> FALSE]
    /\ timers = << >>
    /\ reads = << >>
    /\ uncaught = FALSE
    /\ last = [ev |-> "Init", view |-> "none", out |-> Ratio(0, 1), push |-> "none"]
    /\ component = "EnhancedMainWindow"
    /\ mp_is_updating = FALSE
    /\ mp_last_markdown_content = << >>
    /\ mp_dom = << >>
    /\ mp_timers = << >>
    /\ cursor_position = 0
    /\ outline = NoOutline
    /\ current_file = Unfollowed
    /\ scroll = NoScroll

(* sync_scroll_position(ratio) of the source editor; the ratio applied is  *)
(* kept in last.out                                                        *)
ApplyRatioToEditor(ratio) ==
    Commit([editor_sync_scroll_position(Py, ratio) EXCEPT !.out = ratio],
           "ApplyRatio", "editor")

(* sync_scroll_position(ratio) of the preview *)
ApplyRatioToPreview(ratio) ==
    Commit([preview_sync_scroll_position(Py, ratio) EXCEPT !.out = ratio],
           "ApplyRatio", "preview")

NextRatio ==
    \/ \E ratio \in Ratios : ApplyRatioToEditor(ratio)
    \/ \E ratio \in Ratios : ApplyRatioToPreview(ratio)

SpecRatio == InitRatio /\ [][NextRatio]_vars

(* scroll offset and maximum scroll offset of a view *)
OffsetOf(view, sc) == IF view = "editor" THEN sc.ed_value ELSE sc.pg_top
MaximumOf(view) ==
    IF view = "editor" THEN EditorMaximum(editor_text)
    ELSE PageMaxScroll(dom["preview"])

(* C15: applying ratio 0 to a view puts it at offset 0, applying ratio 1   *)
(* at its maximum offset, and of two ratios applied one after the other to *)
(* the same view the greater does not give the smaller offset.             *)
C15_RatioMapping ==
    [][ last'.ev = "ApplyRatio" =>
          LET r == last'.out
              v == last'.view
          IN  /\ r.n = 0 => OffsetOf(v, scroll') = 0
              /\ r.n = r.d => OffsetOf(v, scroll') = MaximumOf(v)
              /\ (last.ev = "ApplyRatio" /\ last.view = v
                  /\ last.out.n * r.d <= r.n * last.out.d)
                    => OffsetOf(v, scroll) <= OffsetOf(v, scroll')
      ]_vars

(* ratio 1/3 was applied to an editor whose maximum is 4: int() truncated  *)
(* 4/3 to 1                                                                *)
C15_Witness ==
    /\ last.ev = "ApplyRatio" /\ last.view = "editor"
    /\ last.out = Ratio(1, 3)
    /\ EditorMaximum(editor_text) = 4
    /\ scroll.ed_value = 1


(***************************************************************************)
(* A list edited in the WYSIWYG view.  The window is driven from           *)
(* construction: a file holding a list of one item is opened, the modes    *)
(* are switched, the user adds an item in the WYSIWYG view.                *)
(***************************************************************************)
ListDoc == <<"-", SP, "a">>

(* the WYSIWYG view's content after the user has added the item c *)
ListHtmlEdited ==
    <<"<ul>", NL, "<li>", "a", "</li>", NL, "<li>", "c", "</li>", NL, "</ul>">>

NextList ==
    \/ \E reply \in Replies, ok \in BOOLEAN : OpenFile(ListDoc, reply, ok)
    \/ \E ok \in BOOLEAN : ToggleMode(ok)
    \/ \E ok \in BOOLEAN : SwitchToMarkdownMode(ok)
    \/ UserEditRendered("wysiwyg", ListHtmlEdited)
    \/ \E ok \in BOOLEAN : DeliverRead(ok)
    \/ TimerFire

SpecList == Init /\ [][NextList]_vars

(* text has the line l *)
HasLine(text, l) == \E k \in 1..Len(SplitLines(text)) : SplitLines(text)[k] = l

(* C16: when the window leaves WYSIWYG mode for MARKDOWN mode with the     *)
(* item c added to the list in the WYSIWYG view, and no rendering raises,  *)
(* the source text has a line '- c'.                                       *)
C16_ListItemReachesSource ==
    [][ ( /\ current_mode = WYSIWYG /\ current_mode' = MARKDOWN
          /\ HasLine(editor_text, ListDoc)
          /\ dom["wysiwyg"] = ListHtmlEdited
          /\ last'.push # "error" )
        => HasLine(editor_text', <<"-", SP, "c">>)
      ]_vars


(***************************************************************************)
(* Update loops.  The steps the program takes by itself are the expiry of  *)
(* a single-shot timer and the delivery of a read-out's result; each uses  *)
(* up what was pending.                                                    *)
(***************************************************************************)
ProgramSteps == {"TimerFire", "DeliverRead"}

(* what is pending in the event loop: a read-out's delivery may start one  *)
(* timer                                                                   *)
Pending(rs, ts) == 2 * Len(rs) + Len(ts)

(* C17: an edit in the source editor starts at most one push, to the       *)
(* preview, and no pull; an edit in a rendered view starts at most one     *)
(* pull and no push into any view; each step the program takes by itself   *)
(* uses up pending work, so only finitely many follow a user event; and    *)
(* when no timer is pending every guard flag is clear.                     *)
C17_NoUpdateLoops ==
    [][ /\ last'.ev \in {"SourceEdit", "ToolbarBold"}
            => /\ dom'["wysiwyg"] = dom["wysiwyg"]
               /\ content_hash'["wysiwyg"] = content_hash["wysiwyg"]
               /\ syncing' = syncing
               /\ reads' = reads
               /\ Len(timers') <= Len(timers) + 1
        /\ last'.ev \in {"UserEditRendered", "SimulatedInput"}
            => /\ \A w \in Views \ {last'.view} : dom'[w] = dom[w]
               /\ content_hash' = content_hash
               /\ is_updating' = is_updating
               /\ reads' = reads
               /\ Len(timers') <= Len(timers) + 1
        /\ last'.ev \in ProgramSteps
            => Pending(reads', timers') < Pending(reads, timers)
        /\ timers' = << >>
            => (~syncing' /\ \A v \in Views : ~is_updating'[v])
      ]_vars

(* C17 witness: an edit in the WYSIWYG view has been pulled into the       *)
(* editor, the timers it started have expired and nothing is pending.      *)
C17_Witness ==
    /\ last.ev = "TimerFire"
    /\ timers = << >>
    /\ reads = << >>
    /\ current_mode = WYSIWYG
    /\ is_modified
    /\ editor_text # << >>
    /\ editor_text = html_to_markdown(dom["wysiwyg"])
    /\ content_hash["wysiwyg"] # Hash(editor_text)
    /\ ~syncing
    /\ \A v \in Views : ~is_updating[v]


(***************************************************************************)
(* Release of the guard flags.                                             *)
(***************************************************************************)
(* a deferred _do_html_update of the MarkdownPreview is pending *)
UpdatePending(ts) == \E i \in 1..Len(ts) : ts[i].kind = "update"

(* C18: whenever a guard flag is set, a timer that clears it is pending,   *)
(* and the flag of a MarkdownPreview is not cleared while the page update  *)
(* it protects is still pending.                                           *)
C18_GuardRelease ==
    [][ /\ \A v \in Views : is_updating'[v] => ClearPending(timers', "updating", v)
        /\ syncing' => ClearPending(timers', "syncing", "none")
        /\ mp_is_updating' => \E i \in 1..Len(mp_timers') : mp_timers'[i].kind = "clear"
        /\ (mp_is_updating /\ ~mp_is_updating') => ~UpdatePending(mp_timers')
      ]_vars


(* C19: a push of the window that is skipped as unchanged leaves a view    *)
(* that displays the rendering of the text whose push was skipped.         *)
C19_SkipOnlyWhenDisplayed ==
    [][ (component = "EnhancedMainWindow" /\ last'.push = "same")
        => dom'[Shown(stack_index')] = Render(editor_text')
      ]_vars


(* C20: a mode switch, whose only write is the content push of             *)
(* update_content_smooth, raises no scroll event in the page it writes     *)
(* to, so no scroll_sync_requested follows from it.                        *)
C20_ContentPushRaisesNoScroll ==
    [][ (last'.ev = "ToggleMode" /\ last'.push = "pushed" /\ ~scroll.pending)
        => ~scroll'.pending
      ]_vars


(***************************************************************************)
(* Line navigation: scroll_to_line of the two preview classes and          *)
(* goto_line of the source editor, applied to pages and texts of zero to   *)
(* MaxParagraphs paragraphs.                                               *)
(***************************************************************************)
(* line numbers passed run from -1 to MaxLine *)
MaxLine == 6

(* document.querySelectorAll('h1, ..., h6, p, li, pre, blockquote').length *)
PageElements(html) ==
    Cardinality({k \in 1..Len(html) :
                   html[k] \in {"<p>", "<li>"} \cup {HOpen[i] : i \in 1..6}})

(* what a scroll_to_line script did: the index of the element scrolled     *)
(* into view (-1: none) and whether the script raised                      *)
LineOutcome(n, target, raised) == [line |-> n, target |-> target, raised |-> raised]

(* the script of UltraSmoothPreview.scroll_to_line: elements[-1] is        *)
(* undefined                                                               *)
preview_scroll_to_line(html, line_number) ==
    IF PageElements(html) > line_number /\ line_number >= 0
    THEN LineOutcome(line_number, line_number, FALSE)
    ELSE LineOutcome(line_number, -1, FALSE)

(* the script of MarkdownPreview.scroll_to_line: in the fallback branch    *)
(* elements[targetIndex] is undefined for a negative line number and       *)
(* calling scrollIntoView on it raises a TypeError                         *)
mp_scroll_to_line(html, line_number) ==
    LET targetIndex == Min2(line_number, PageElements(html) - 1)
    IN  IF PageElements(html) > line_number /\ line_number >= 0
        THEN LineOutcome(line_number, line_number, FALSE)
        ELSE IF PageElements(html) > 0
        THEN IF targetIndex >= 0 THEN LineOutcome(line_number, targetIndex, FALSE)
             ELSE LineOutcome(line_number, -1, TRUE)
        ELSE LineOutcome(line_number, -1, FALSE)

(* document().blockCount() of the editor *)
BlockCount(text) == Cardinality({k \in 1..Len(text) : text[k] = NL}) + 1

(* position of the first character of block n, 0 <= n < BlockCount(text) *)
BlockStart(text, n) ==
    IF n = 0 THEN 0
    ELSE CHOOSE k \in 1..Len(text) :
            /\ text[k] = NL
            /\ Cardinality({j \in 1..k : text[j] = NL}) = n

(* SmoothMarkdownEditor.goto_line: findBlockByLineNumber yields an invalid *)
(* block for a negative number; is_syncing is set, so neither the caret    *)
(* nor the scroll bar emits; ensureCursorVisible moves the scroll bar only  *)
(* as far as needed                                                        *)
goto_line(s, line_number) ==
    LET top == s.scroll.ed_value
        value == IF line_number < top THEN line_number
                 ELSE IF line_number >= top + EditorViewport
                 THEN line_number - EditorViewport + 1
                 ELSE top
    IN  IF line_number < BlockCount(s.editor_text) /\ line_number >= 0
        THEN [s EXCEPT !.cursor_position = BlockStart(s.editor_text, line_number),
                       !.scroll.ed_value = value]
        ELSE s

InitLine ==
    /\ \E p \in 0..MaxParagraphs, c \in {"EnhancedMainWindow", "MarkdownPreview"} :
          LET text == IF p = 0 THEN << >> ELSE Paragraphs(p)
              w == (c = "EnhancedMainWindow")
          IN  /\ component = c
              /\ editor_text = (IF w THEN text ELSE << >>)
              /\ dom = [v \in Views |-> IF w /\ v = "preview" THEN Render(text)
                                        ELSE << >>]
              /\ content_hash = [v \in Views |-> IF w /\ v = "preview"
                                                 THEN Hash(text) ELSE NoHash]
              /\ mp_dom = (IF w THEN << >> ELSE Render(text))
              /\ mp_last_markdown_content = (IF w THEN << >> ELSE text)
    /\ is_modified = FALSE
    /\ current_mode = MARKDOWN
    /\ toggle_mode = MARKDOWN
    /\ stack_index = 0
    /\ syncing = FALSE
    /\ is_updating = [v \in Views |-> FALSE]
    /\ editable = [v \in Views |-> FALSE]
    /\ timers = << >>
    /\ reads = << >>
    /\ uncaught = FALSE
    /\ last = [ev |-> "Init", view |-> "none", out |-> LineOutcome(0, -1, FALSE),
               push |-> "none"]
    /\ mp_is_updating = FALSE
    /\ mp_timers = << >>
    /\ cursor_position = 0
    /\ outline = NoOutline
    /\ current_file = Unfollowed
    /\ scroll = NoScroll

(* preview.scroll_to_line(n) of the window's preview *)
ScrollToLine(n) ==
    Commit([Py EXCEPT !.out = preview_scroll_to_line(dom["preview"], n)],
           "ScrollToLine", "preview")

(* scroll_to_line(n) of a MarkdownPreview *)
MpScrollToLine(n) ==
    MpCommit([Mp EXCEPT !.out = mp_scroll_to_line(mp_dom, n)], "ScrollToLine")

(* editor.goto_line(n) *)
GotoLine(n) ==
    Commit([goto_line(Py, n) EXCEPT !.out = LineOutcome(n, -1, FALSE)],
           "GotoLine", "editor")

NextLine ==
    \/ \E n \in (-1)..MaxLine : ScrollToLine(n)
    \/ \E n \in (-1)..MaxLine : MpScrollToLine(n)
    \/ \E n \in (-1)..MaxLine : GotoLine(n)

SpecLine == InitLine /\ [][NextLine]_vars

(* the page scroll_to_line was applied to in the step *)
LinePage == IF component = "EnhancedMainWindow" THEN dom["preview"] ELSE mp_dom

(* C21: scroll_to_line(n), n >= 0, on a page of N >= 1 elements scrolls    *)
(* element min(n, N - 1) into view; on a page without elements it does     *)
(* nothing and raises nothing; goto_line with a line number that is        *)
(* negative or not below the block count leaves the caret where it is.     *)
C21_LineMappingClamped ==
    [][ /\ (last'.ev = "ScrollToLine" /\ last'.out.line >= 0)
            => /\ ~last'.out.raised
               /\ PageElements(LinePage) >= 1
                    => last'.out.target
                         = Min2(last'.out.line, PageElements(LinePage) - 1)
               /\ PageElements(LinePage) = 0 => last'.out.target = -1
        /\ ( /\ last'.ev = "GotoLine"
             /\ (last'.out.line < 0 \/ last'.out.line >= BlockCount(editor_text)) )
            => cursor_position' = cursor_position
      ]_vars


(***************************************************************************)
(* The caret of the source editor across pushes into it.                   *)
(***************************************************************************)
(* caret positions the user chooses: up to the end of the longest text of  *)
(* SrcDocs                                                                 *)
MaxCaret == 4

(* the user puts the caret at position p of the text *)
MoveCaret(p) ==
    /\ p \in 0..Len(editor_text)
    /\ p # cursor_position
    /\ Commit([Py EXCEPT !.cursor_position = p], "MoveCaret", "editor")

NextCaret ==
    \/ \E t \in SrcDocs, ok \in BOOLEAN : SourceEdit(t, ok)
    \/ \E p \in 0..MaxCaret : MoveCaret(p)
    \/ \E ok \in BOOLEAN : ToggleMode(ok)
    \/ \E h \in WysHtml : UserEditRendered("wysiwyg", h)
    \/ TimerFire

SpecCaret == Init /\ [][NextCaret]_vars

(* C22: after an edit of the WYSIWYG view has been written into the source *)
(* editor by set_content_silently, the editor text is the converted        *)
(* content and the caret is at min(p, len(content)), p the position before. *)
C22_CaretPreserved ==
    [][ (last'.ev = "UserEditRendered" /\ last'.out = "honored")
        => /\ editor_text' = html_to_markdown(dom'["wysiwyg"])
           /\ cursor_position' = Min2(cursor_position, Len(editor_text'))
      ]_vars


(* C23: every step that changes the editor text, other than loading a      *)
(* file or starting a new one, leaves is_modified set.                     *)
C23_DirtyTracksDocument ==
    [][ (editor_text' # editor_text /\ last'.ev \notin {"NewFile", "OpenFile"})
        => is_modified'
      ]_vars

(***************************************************************************)
(* List conversion.  A fragment is one list, two lists in sequence, or a   *)
(* list whose first item holds a second list; each list is unordered,      *)
(* ordered, or ordered with a start attribute.  The fragment is the HTML   *)
(* of the view, and the conversion writes its markdown to the text.        *)
(***************************************************************************)
MaxItems == 2

(* the item texts of the first and of the second list of a fragment *)
ItemTok == << <<"a", "b", "c">>, <<"x", "y", "z">> >>

(* a list: its kind, and the number of its items *)
ListShapes == [kind : {"ul", "ol", "ol start"}, n : 1..MaxItems]

ListFragments ==
    {[lists |-> <<l>>, nested |-> FALSE] : l \in ListShapes}
    \cup {[lists |-> <<l[1], l[2]>>, nested |-> b] :
             l \in ListShapes \X ListShapes, b \in BOOLEAN}

(* the items of list k from item i on; inner is the HTML inside item 1 *)
RECURSIVE ItemsHtml(_, _, _, _)
ItemsHtml(k, i, n, inner) ==
    IF i > n THEN << >>
    ELSE <<"<li>", ItemTok[k][i]>> \o (IF i = 1 THEN inner ELSE << >>)
         \o <<"</li>">> \o ItemsHtml(k, i + 1, n, inner)

ListHtml(l, k, inner) ==
    <<IF l.kind = "ul" THEN "<ul>" ELSE IF l.kind = "ol" THEN "<ol>" ELSE OlStart>>
    \o ItemsHtml(k, 1, l.n, inner)
    \o <<IF l.kind = "ul" THEN "</ul>" ELSE "</ol>">>

FragmentHtml(f) ==
    IF Len(f.lists) = 1 THEN ListHtml(f.lists[1], 1, << >>)
    ELSE IF f.nested
         THEN ListHtml(f.lists[1], 1, ListHtml(f.lists[2], 2, << >>))
         ELSE ListHtml(f.lists[1], 1, << >>) \o ListHtml(f.lists[2], 2, << >>)

(* the markdown line of item i of list k: a dash, or the number i *)
ItemLine(l, k, i) ==
    (IF l.kind = "ul" THEN <<"-">> ELSE <<NumTok[i]>>) \o <<SP, ItemTok[k][i]>>

InitLists ==
    /\ editor_text = << >>
    /\ is_modified = FALSE
    /\ current_mode = WYSIWYG
    /\ toggle_mode = WYSIWYG
    /\ stack_index = 1
    /\ syncing = FALSE
    /\ is_updating = [v \in Views |-> FALSE]
    /\ content_hash = [v \in Views |-> NoHash]
    /\ \E f \in ListFragments :
          /\ dom = [v \in Views |-> IF v = "wysiwyg" THEN FragmentHtml(f) ELSE << >>]
          /\ last = [ev |-> "Init", view |-> "wysiwyg", out |-> f, push |-> "none"]
    /\ editable = [v \in Views |-> v = "wysiwyg"]
    /\ timers = << >>
    /\ reads = << >>
    /\ uncaught = FALSE
    /\ component = "Lists"
    /\ mp_is_updating = FALSE
    /\ mp_last_markdown_content = << >>
    /\ mp_dom = << >>
    /\ mp_timers = << >>
    /\ cursor_position = 0
    /\ outline = NoOutline
    /\ current_file = Unfollowed
    /\ scroll = NoScroll

(* html_to_markdown applied to the fragment *)
ConvertLists ==
    /\ last.ev = "Init"
    /\ editor_text' = html_to_markdown(dom["wysiwyg"])
    /\ last' = [last EXCEPT !.ev = "Convert"]
    /\ UNCHANGED << is_modified, current_mode, toggle_mode, stack_index,
                    syncing, is_updating, content_hash, dom, editable,
                    timers, reads, uncaught, component, mp_vars,
                    cursor_position, outline,
                    current_file, scroll >>

SpecLists == InitLists /\ [][ConvertLists]_vars

(* the items of the fragment that hold text only *)
PlainItems(f) ==
    {ki \in (1..Len(f.lists)) \X (1..MaxItems) :
        /\ ki[2] <= f.lists[ki[1]].n
        /\ ~(f.nested /\ ki = <<1, 1>>)}

(***************************************************************************)
(* C24: in the markdown of a converted fragment every item of every        *)
(* unordered list has its line "- item", and the i-th item of every        *)
(* ordered list has its line "i. item", the numbers starting at 1 in each  *)
(* list whatever its start attribute and whatever lists precede it; a      *)
(* fragment of lists that hold text only has no other line.                *)
(***************************************************************************)
C24_ListConversion ==
    last.ev = "Convert" =>
        /\ \A ki \in PlainItems(last.out) :
              HasLine(editor_text, ItemLine(last.out.lists[ki[1]], ki[1], ki[2]))
        /\ ~last.out.nested =>
              Cardinality({k \in 1..Len(SplitLines(editor_text)) :
                              SplitLines(editor_text)[k] # << >>})
                  = Cardinality(PlainItems(last.out))

(***************************************************************************)
(* Link and image conversion.  A fragment is a sequence of inline          *)
(* elements: an anchor with an href, an anchor without one, an image with  *)
(* src before alt, an image with alt before src, an image with a src       *)
(* only, or plain text.                                                    *)
(***************************************************************************)
MaxElems == 3

InlineHtml(e) ==
    IF e = "link" THEN <<AHref, "text", "</a>">>
    ELSE IF e = "anchor" THEN <<"<a name='n'>", "text", "</a>">>
    ELSE IF e = "img src alt" THEN <<ImgSrcAlt>>
    ELSE IF e = "img alt src" THEN <<ImgAltSrc>>
    ELSE IF e = "img src" THEN <<"<img src='u'>">>
    ELSE <<"text">>

RECURSIVE InlinesHtml(_)
InlinesHtml(es) ==
    IF es = << >> THEN << >> ELSE InlineHtml(Head(es)) \o InlinesHtml(Tail(es))

InlineFragments ==
    UNION {[1..n -> {"link", "anchor", "img src alt", "img alt src", "img src", "text"}] :
              n \in 1..MaxElems}

(* the number of places of seq s that hold one of the values *)
Count(s, values) == Cardinality({k \in 1..Len(s) : s[k] \in values})

InitInline ==
    /\ editor_text = << >>
    /\ is_modified = FALSE
    /\ current_mode = WYSIWYG
    /\ toggle_mode = WYSIWYG
    /\ stack_index = 1
    /\ syncing = FALSE
    /\ is_updating = [v \in Views |-> FALSE]
    /\ content_hash = [v \in Views |-> NoHash]
    /\ \E es \in InlineFragments :
          /\ dom = [v \in Views |-> IF v = "wysiwyg" THEN InlinesHtml(es) ELSE << >>]
          /\ last = [ev |-> "Init", view |-> "wysiwyg", out |-> es, push |-> "none"]
    /\ editable = [v \in Views |-> v = "wysiwyg"]
    /\ timers = << >>
    /\ reads = << >>
    /\ uncaught = FALSE
    /\ component = "Inline"
    /\ mp_is_updating = FALSE
    /\ mp_last_markdown_content = << >>
    /\ mp_dom = << >>
    /\ mp_timers = << >>
    /\ cursor_position = 0
    /\ outline = NoOutline
    /\ current_file = Unfollowed
    /\ scroll = NoScroll

(* html_to_markdown applied to the fragment *)
ConvertInline ==
    /\ last.ev = "Init"
    /\ editor_text' = html_to_markdown(dom["wysiwyg"])
    /\ last' = [last EXCEPT !.ev = "Convert"]
    /\ UNCHANGED << is_modified, current_mode, toggle_mode, stack_index,
                    syncing, is_updating, content_hash, dom, editable,
                    timers, reads, uncaught, component, mp_vars,
                    cursor_position, outline,
                    current_file, scroll >>

SpecInline == InitInline /\ [][ConvertInline]_vars

(***************************************************************************)
(* C25: the markdown of a converted fragment holds one [text](href) for    *)
(* every anchor with an href, and one ![alt](src) for every image that has *)
(* both an alt and a src attribute, in either order of the two.            *)
(***************************************************************************)
C25_LinkImageConversion ==
    last.ev = "Convert" =>
        /\ Count(editor_text, {"](u)"}) = Count(last.out, {"link"})
        /\ Count(editor_text, {"![t](u)"})
              = Count(last.out, {"img src alt", "img alt src"})


(***************************************************************************)
(* The outline as a function of the text.  A text is a sequence of lines,  *)
(* each a heading of some level or a line of plain text; update_outline    *)
(* is applied to it, the outline being empty or built from an earlier text *)
(* before.                                                                 *)
(***************************************************************************)
MaxLevel == 3

MaxOutlineLines == 3

OutlineTexts ==
    LET kinds == {Hashes(n) \o <<SP, "title">> : n \in 1..MaxLevel} \cup {<<"text">>}
    IN  {JoinLines(ls) : ls \in UNION {[1..n -> kinds] : n \in 0..MaxOutlineLines}}

InitOutline ==
    /\ editor_text \in OutlineTexts
    /\ is_modified = FALSE
    /\ current_mode = MARKDOWN
    /\ toggle_mode = MARKDOWN
    /\ stack_index = 0
    /\ syncing = FALSE
    /\ is_updating = [v \in Views |-> FALSE]
    /\ content_hash = [v \in Views |-> NoHash]
    /\ dom = [v \in Views |-> << >>]
    /\ editable = [v \in Views |-> FALSE]
    /\ timers = << >>
    /\ reads = << >>
    /\ uncaught = FALSE
    /\ last = [ev |-> "Init", view |-> "none", out |-> "none", push |-> "none"]
    /\ component = "DocumentOutline"
    /\ mp_is_updating = FALSE
    /\ mp_last_markdown_content = << >>
    /\ mp_dom = << >>
    /\ mp_timers = << >>
    /\ cursor_position = 0
    /\ outline \in {NoOutline,
                     update_outline(NoOutline, <<"#", SP, "earlier", NL,
                                                 "#", "#", SP, "title">>)}
    /\ current_file = Unfollowed
    /\ scroll = NoScroll

(* DocumentOutline.update_outline(text) *)
UpdateOutline ==
    /\ outline' = update_outline(outline, editor_text)
    /\ last' = [last EXCEPT !.ev = "UpdateOutline"]
    /\ UNCHANGED << editor_text, is_modified, current_mode, toggle_mode,
                    stack_index, syncing, is_updating, content_hash, dom,
                    editable, timers, reads, uncaught, component, mp_vars,
                    cursor_position, current_file, scroll >>

SpecOutline == InitOutline /\ [][UpdateOutline]_vars

(* the 1-based indices of the heading lines of a text *)
HeadingLines(text) ==
    {i \in 1..Len(SplitLines(text)) : HeadingMatch(SplitLines(text)[i])}

(***************************************************************************)
(* C30: after update_outline the items are the heading lines of the text,  *)
(* one item each, in document order, each with its 0-based line index and  *)
(* its level, and each a child of the nearest item before it that has a    *)
(* strictly smaller level, a top-level item when there is none; nothing    *)
(* of the outline built before remains.                                    *)
(***************************************************************************)
C30_OutlineHierarchy ==
    last.ev = "UpdateOutline" =>
        LET items == outline.items
            lines == SplitLines(editor_text)
        IN  /\ Len(items) = Cardinality(HeadingLines(editor_text))
            /\ \A k \in 1..Len(items) :
                  /\ items[k].line + 1 \in HeadingLines(editor_text)
                  /\ items[k].level = HashCount(lines[items[k].line + 1])
                  /\ \A m \in (k + 1)..Len(items) : items[k].line < items[m].line
                  /\ LET smaller == {j \in 1..(k - 1) : items[j].level < items[k].level}
                     IN  items[k].parent =
                            IF smaller = {} THEN 0
                            ELSE CHOOSE j \in smaller : \A i \in smaller : j >= i

(* a rebuilt outline of three headings, the second a child of the first,  *)
(* the third of the same level as the second and so its sibling            *)
C30_Witness ==
    /\ last.ev = "UpdateOutline"
    /\ Len(outline.items) = 3
    /\ outline.items[3].line = 2
    /\ outline.items[2].parent = 1
    /\ outline.items[3].level = outline.items[2].level
    /\ outline.items[3].parent = 1

(***************************************************************************)
(* The window with its sidebar: every handler as above, and the            *)
(* single-shot timer of on_editor_content_changed that rebuilds the        *)
(* outline from the text it captured.                                      *)
(***************************************************************************)
HeadingDocs == { <<"#", SP, "text">>, <<"#", SP, "text", NL, "#", "#", SP, "text">> }

HeadingHtml == { <<"<h1>", "text", "</h1>">>, <<"<h2>", "text", "</h2>">> }

InitFollowed ==
    /\ editor_text = << >>
    /\ is_modified = FALSE
    /\ current_mode = MARKDOWN
    /\ toggle_mode = MARKDOWN
    /\ stack_index = 0
    /\ syncing = FALSE
    /\ is_updating = [v \in Views |-> FALSE]
    /\ content_hash = [v \in Views |-> NoHash]
    /\ dom = [v \in Views |-> << >>]
    /\ editable = [v \in Views |-> FALSE]
    /\ timers = << >>
    /\ reads = << >>
    /\ uncaught = FALSE
    /\ last = [ev |-> "Init", view |-> "none", out |-> "none", push |-> "none"]
    /\ component = "EnhancedMainWindow"
    /\ mp_is_updating = FALSE
    /\ mp_last_markdown_content = << >>
    /\ mp_dom = << >>
    /\ mp_timers = << >>
    /\ cursor_position = 0
    /\ outline = [NoOutline EXCEPT !.followed = TRUE]
    /\ current_file = Unfollowed
    /\ scroll = NoScroll

(* the timer of on_editor_content_changed expires:                         *)
(* self.sidebar.document_outline.update_outline(content)                   *)
OutlineTimerFire ==
    /\ outline.pending # << >>
    /\ Commit([Py EXCEPT !.outline = update_outline([outline EXCEPT !.pending = << >>],
                                                    Head(outline.pending)),
                         !.out = "outline"],
              "OutlineTimerFire", "none")

NextFollowed ==
    \/ \E t \in HeadingDocs \cup {<< >>} : SourceEdit(t, TRUE)
    \/ \E reply \in Replies : NewFile(reply, TRUE)
    \/ \E content \in HeadingDocs, reply \in Replies : OpenFile(content, reply, TRUE)
    \/ ToggleMode(TRUE)
    \/ \E h \in HeadingHtml : UserEditRendered("wysiwyg", h)
    \/ TimerFire
    \/ OutlineTimerFire

SpecFollowed == InitFollowed /\ [][NextFollowed]_vars

(***************************************************************************)
(* C26: once no timer is pending, the outline's items are the headings of  *)
(* the editor's text, each with its title, level and line number.          *)
(***************************************************************************)
C26_OutlineFollowsDocument ==
    (timers = << >> /\ outline.pending = << >>)
        => outline.items = update_outline(NoOutline, editor_text).items

(* MarkdownEditor.get_scroll_ratio *)
get_scroll_ratio(s) ==
    LET maximum == EditorMaximum(s.editor_text)
    IN  IF maximum = 0 THEN Ratio(0, 1) ELSE Ratio(s.scroll.ed_value, maximum)

(***************************************************************************)
(* C27: every ratio a scroll signal carries is the offset of its view      *)
(* divided by the view's maximum scroll offset (content height minus       *)
(* viewport height), with a divisor above zero, and lies in [0, 1]; when   *)
(* the page's content fits, so that the maximum offset is 0, the ratio     *)
(* the page reports is 0.  The same holds of the ratio the editor gives    *)
(* when asked.                                                             *)
(***************************************************************************)
C27_ScrollRatioInRange ==
    /\ LET r == get_scroll_ratio(Py)
       IN  /\ r.d > 0 /\ 0 <= r.n /\ r.n <= r.d
           /\ EditorMaximum(editor_text) = 0 => r.n = 0
    /\ \A r \in scroll.carried : r.d > 0 /\ 0 <= r.n /\ r.n <= r.d
    /\ (last.ev = "PageScrollEvent") =>
          scroll.carried =
              {IF PageMaxScroll(dom["preview"]) > 0
               THEN Ratio(scroll.pg_top, PageMaxScroll(dom["preview"]))
               ELSE Ratio(0, 1)}
    /\ (last.ev # "PageScrollEvent" /\ scroll.carried # {}) =>
          scroll.carried = {Ratio(scroll.ed_value, EditorMaximum(editor_text))}

(* the page stood scrolled when a shorter text was rendered, and the       *)
(* scroll event raised by that reports the ratio 0 of a page that fits     *)
C27_Witness ==
    /\ last.ev = "PageScrollEvent"
    /\ PageMaxScroll(dom["preview"]) = 0
    /\ scroll.carried = {Ratio(0, 1)}

(***************************************************************************)
(* The read-out on the switch to MARKDOWN mode, with a renderer that does  *)
(* not raise: a view whose content_hash is that of a text with a           *)
(* non-empty rendering has been given that rendering, so that a view       *)
(* found empty then has been emptied by the user.                          *)
(***************************************************************************)
NextReadOut ==
    \/ \E t \in SrcDocs : SourceEdit(t, TRUE)
    \/ ToggleMode(TRUE)
    \/ SwitchToMarkdownMode(TRUE)
    \/ \E h \in WysHtml : UserEditRendered("wysiwyg", h)
    \/ DeliverRead(TRUE)
    \/ TimerFire

SpecReadOut == Init /\ [][NextReadOut]_vars

(* the read-out that is delivered next is that of a view the user emptied *)
UserEmptiedView ==
    /\ reads # << >>
    /\ Head(reads) = << >>
    /\ \E t \in SrcDocs : content_hash["wysiwyg"] = Hash(t) /\ Render(t) # << >>

(***************************************************************************)
(* C28: the delivery of a read-out always ends in MARKDOWN mode; when the  *)
(* pull is skipped the editor's text and is_modified are as before; the    *)
(* pull is skipped when the callback arrives while _syncing is set, and    *)
(* when the HTML is empty or converts to nothing for another reason than   *)
(* the user's emptying the view; and the read-out of a view the user       *)
(* emptied, arriving while _syncing is clear, empties the editor.          *)
(***************************************************************************)
C28_EmptyReadOut ==
    [][ last'.ev = "DeliverRead" =>
          /\ current_mode' = MARKDOWN
          /\ last'.out # "pulled" =>
                editor_text' = editor_text /\ is_modified' = is_modified
          /\ (syncing \/ (html_to_markdown(Head(reads)) = << >> /\ ~UserEmptiedView))
                => last'.out # "pulled"
          /\ (UserEmptiedView /\ ~syncing) => editor_text' = << >>
      ]_vars

(***************************************************************************)
(* The window with its file: the runs that follow current_file, with       *)
(* every answer the user may give to the dialogs of new_file, open_file    *)
(* and closeEvent.                                                         *)
(***************************************************************************)
InitFiles ==
    /\ editor_text = << >>
    /\ is_modified = FALSE
    /\ current_mode = MARKDOWN
    /\ toggle_mode = MARKDOWN
    /\ stack_index = 0
    /\ syncing = FALSE
    /\ is_updating = [v \in Views |-> FALSE]
    /\ content_hash = [v \in Views |-> NoHash]
    /\ dom = [v \in Views |-> << >>]
    /\ editable = [v \in Views |-> FALSE]
    /\ timers = << >>
    /\ reads = << >>
    /\ uncaught = FALSE
    /\ last = [ev |-> "Init", view |-> "none", out |-> "none", push |-> "none"]
    /\ component = "EnhancedMainWindow"
    /\ mp_is_updating = FALSE
    /\ mp_last_markdown_content = << >>
    /\ mp_dom = << >>
    /\ mp_timers = << >>
    /\ cursor_position = 0
    /\ outline = NoOutline
    /\ current_file = None
    /\ scroll = NoScroll

NextFiles ==
    \/ \E t \in SrcDocs \cup {<< >>} : SourceEdit(t, TRUE)
    \/ \E reply \in Replies \cup Refusals : NewFile(reply, TRUE)
    \/ \E content \in SrcDocs, reply \in Replies \cup Refusals :
          OpenFile(content, reply, TRUE)
    \/ \E reply \in Replies \cup Refusals : CloseEvent(reply)
    \/ ToggleMode(TRUE)
    \/ TimerFire

SpecFiles == InitFiles /\ [][NextFiles]_vars

(***************************************************************************)
(* C29: a step of new_file, open_file or closeEvent in which the user      *)
(* cancels, or chooses Save and the write fails or the Save-As dialog is   *)
(* dismissed, gives the operation up and leaves the editor's text,         *)
(* current_file and is_modified as they were.                              *)
(***************************************************************************)
C29_RefusalChangesNothing ==
    [][ \A reply \in Refusals :
          ( \/ NewFile(reply, TRUE)
            \/ \E content \in SrcDocs : OpenFile(content, reply, TRUE)
            \/ CloseEvent(reply) )
          => /\ last'.out = "cancel"
             /\ editor_text' = editor_text
             /\ current_file' = current_file
             /\ is_modified' = is_modified
      ]_vars

=============================================================================
